---- MODULE Spec2Model ----
(***************************************************************************)
(* A model of the OpenWebUI suite: its pipelines gateway                   *)
(* (src/00-pipelines-gateway): the Redis-backed task queue and its worker, *)
(* the token-bucket rate limiter, the Pre/Mid/Post chat pipeline, the      *)
(* OpenRouter provider, the routing policy and the OpenRouter gateway;     *)
(* and the services around it.                                             *)
(*                                                                         *)
(* One module, several specifications over disjoint groups of variables:   *)
(*   SpecQueue   tasks.py and the queue wiring of server.py                *)
(*   SpecRate    the rate-limit middleware of server.py                    *)
(*   SpecChat    one request through chat_completions: _pre, _mid, _post   *)
(*   SpecStream  one request through chat_completions_stream               *)
(*   SpecLoop    _tool_call_loop called on its own                         *)
(*   SpecRemote  providers/openrouter.py: chat()                           *)
(*   SpecPolicy  router/policy.py: RouterPolicy.route_request              *)
(*   SpecGateway api/openrouter_gateway.py: chat_completions               *)
(*   SpecDrive   the drive-state service (src/05-drive-state)              *)
(*   SpecMemory  the memory service (src/02-memory-2.0)                    *)
(*   SpecGuard   the policy guardrails service (src/13-policy-guardrails)  *)
(*   SpecCorr    request ids: add_request_id and Svc                       *)
(*   SpecSig     signed calls: Svc.post and verify_sig                     *)
(*   SpecCache   normalize_tool_args (src/14-telemetry-cache)              *)
(*   SpecByte    the ByteBot gateway (src/15-bytebot-gateway)              *)
(*   SpecNudge   the proactive daemon (src/09-proactive-daemon)            *)
(* Each specification leaves the variables of the others unchanged.        *)
(***************************************************************************)
EXTENDS Integers, Sequences, FiniteSets, TLC

VARIABLES
    \* ---- task queue (tasks.py, server.py:178-209, 630-638) ----
    task_queue,     \* server._task_queue: "None" before startup, else "TaskQueue"
    r,              \* TaskQueue._r is set (connect() has run)
    QUEUE,          \* the Redis list QUEUE, index 1 is the left end
    DLQ,            \* the Redis list DLQ, index 1 is the left end
    worker,         \* position of the worker_loop task
    job,            \* the job worker_loop holds between poll() and succeed()/fail()
    handler,        \* the handler worker_loop was given
    now,            \* time.time() as tasks.py reads it, in seconds
    task_enqueued_total, \* _metrics["task_enqueued_total"]
    \* history of the queue, written by the actions and read only by properties
    accepted,       \* payloads enqueue() pushed to QUEUE or DLQ
    succeeded,      \* payloads for which the handler returned and succeed() ran
    order,          \* the payloads waiting in QUEUE, earliest insertion first
    lastOp,         \* the queue operation the last step performed
    \* ---- rate limiter (server.py:25-28, 98-162) ----
    RATE_LIMIT_PER_MIN,  \* the configured rate, tokens per minute (<= 0: off)
    RATE_LIMIT_BURST,    \* the configured burst
    buckets,        \* Redis hashes tb:<user>: tokens, ts and the key's expiry
    now_ms,         \* int(time.time() * 1000)
    ticks,          \* clock steps taken so far
    http_requests_total, \* _metrics["http_requests_total"]
    rate_limited_total,  \* _metrics["rate_limited_total"]
    lastReq,        \* history: what the limiter did for the last request
    \* ---- chat pipeline (server.py:217-598) ----
    pc,             \* where the chat_completions coroutine stands
    ctx,            \* the ctx dict the stages pass on
    enrich,         \* the four coroutines asyncio.gather runs in _pre
    loop,           \* _tool_call_loop's locals
    out,            \* the answer to the client, and where an exception rose
    hist,           \* history of the request, read only by properties
    \* ---- remote chat call (providers/openrouter.py:123-199) ----
    OPENROUTER_KEY, \* the API key is configured
    model_priority, \* chat()'s argument: model names, "" or None among them
    lineup,         \* the models chat() will try, in order
    model_idx,      \* i of enumerate(lineup, 1): the model being tried
    attempt,        \* range(MAX_RETRIES): the attempt being made
    last_err,       \* the error chat() recorded last
    chat_result,    \* "none" while chat() runs, then what it returned or raised
    \* history of the call, read only by properties
    tried,          \* the model of every request sent, in order
    seen,           \* the last error a request ended with
    lastResp,       \* the answer to the last request sent
    \* ---- routing policy and gateway (router/policy.py, ----
    \* ---- api/openrouter_gateway.py)                    ----
    openrouter_available, \* RouterPolicy.openrouter_available
    local_available,      \* RouterPolicy.local_available
    routed,         \* the last call of route_request: arguments and outcome
    request,        \* the ChatRequest the gateway is serving
    gw,             \* the gateway handler: position, locals, calls, answer
    \* ---- drive-state service (src/05-drive-state/src) ----
    states,         \* DriveStateManager.states: user_id -> DriveState
    storage_file,   \* the content of drive_states.json
    reqs,           \* the requests the service holds, one per client
    running,        \* the request whose handler holds the event loop
    calls,          \* requests received so far
    \* ---- memory service (src/02-memory-2.0/src/app.py) ----
    traits,         \* table traits: (user_id, key) -> value, confidence
    episodes,       \* table episodes, by id
    mem_now,        \* datetime.now(timezone.utc).timestamp(), in seconds
    candidates,     \* POST /mem/candidates received so far
    lastCandidate,   \* history: the last candidate and what the handler did
    \* ---- policy guardrails (src/13-policy-guardrails/src/app.py) ----
    guard_log,       \* history: the requests answered so far, each with its answer
    \* ---- request correlation (server.py:166-175, util/http.py) ----
    REQUEST_ID,     \* the context variable's value in the context of each request's task
    http,           \* the requests: stage, inbound header, rid, outbound headers, response
    uuids,           \* uuid.uuid4() values drawn so far
    \* ---- inter-service signatures (util/http.py, 10-multimodal-router) ----
    SHARED,         \* security.SHARED: the receiver's SUITE_SHARED_SECRET, "" when unset
    svc_secret,     \* Svc.secret of the gateway, "None" when unset
    httpx_compact,  \* whether the installed httpx writes JSON bodies compactly
    wire,           \* the request on its way to the multimodal router
    delivered,       \* history: the requests the router has answered
    \* ---- cache keys (src/14-telemetry-cache/src/app.py:306-325) ----
    arg_maps,       \* two argument maps of one tool, each in its insertion order
    cache_keys,      \* the two keys normalize_tool_args returned, <<>> before the calls
    \* ---- ByteBot gateway (src/15-bytebot-gateway/src) ----
    active_tasks,   \* app.active_tasks: the ids of the planned tasks not yet executed
    task_events,    \* app.task_events: task id -> its events
    execs,          \* the /execute requests the service holds, one per client
    bb_calls,       \* history: the requests sent to the backend's /execute
    plans,          \* the /plan and /execute requests received so far
    last_plan,       \* the answer to the last /plan request
    \* ---- proactive daemon (src/09-proactive-daemon/src/worker.py) ----
    idempotency_keys, \* table idempotency_keys: key -> expires_at
    clock,          \* datetime.now(), in instants of the clock
    dry_run,        \* ProactiveDaemon.dry_run
    max_retries,    \* BackoffManager.max_retries, from the configuration
    nudge,          \* the send_nudge call in progress, and the last is_duplicate call
    posts,          \* history: the nudges the gateway answered with 200
    nudges,         \* send_nudge calls so far
    clock_steps     \* steps of the clock so far

qvars == <<task_queue, r, QUEUE, DLQ, worker, job, handler, now,
           task_enqueued_total, accepted, succeeded, order, lastOp>>

rvars == <<RATE_LIMIT_PER_MIN, RATE_LIMIT_BURST, buckets, now_ms, ticks,
           http_requests_total, rate_limited_total, lastReq>>

cvars == <<pc, ctx, enrich, loop, out, hist>>

ovars == <<OPENROUTER_KEY, model_priority, lineup, model_idx, attempt, last_err,
           chat_result, tried, seen, lastResp>>

gvars == <<openrouter_available, local_available, routed, request, gw>>

dvars == <<states, storage_file, reqs, running, calls>>

mvars == <<traits, episodes, mem_now, candidates, lastCandidate>>

pvars == <<guard_log>>

ivars == <<REQUEST_ID, http, uuids>>

svars == <<SHARED, svc_secret, httpx_compact, wire, delivered>>

kvars == <<arg_maps, cache_keys>>

bvars == <<active_tasks, task_events, execs, bb_calls, plans, last_plan>>

nvars == <<idempotency_keys, clock, dry_run, max_retries, nudge, posts,
           nudges, clock_steps>>

vars == <<qvars, rvars, cvars, ovars, gvars, dvars, mvars, pvars, ivars,
        svars, kvars, bvars, nvars>>

\* what each specification leaves alone
notQueue == <<rvars, cvars, ovars, gvars, dvars, mvars, pvars, ivars,
        svars, kvars, bvars, nvars>>
notRate == <<qvars, cvars, ovars, gvars, dvars, mvars, pvars, ivars, svars,
        kvars, bvars, nvars>>
notChat == <<qvars, rvars, ovars, gvars, dvars, mvars, pvars, ivars, svars,
        kvars, bvars, nvars>>
notRemote == <<qvars, rvars, cvars, gvars, dvars, mvars, pvars, ivars,
        svars, kvars, bvars, nvars>>
notGateway == <<qvars, rvars, cvars, ovars, dvars, mvars, pvars, ivars,
        svars, kvars, bvars, nvars>>
notDrive == <<qvars, rvars, cvars, ovars, gvars, mvars, pvars, ivars,
        svars, kvars, bvars, nvars>>
notMemory == <<qvars, rvars, cvars, ovars, gvars, dvars, pvars, ivars,
        svars, kvars, bvars, nvars>>
notGuard == <<qvars, rvars, cvars, ovars, gvars, dvars, mvars, ivars,
        svars, kvars, bvars, nvars>>
notCorr == <<qvars, rvars, cvars, ovars, gvars, dvars, mvars, pvars, svars,
        kvars, bvars, nvars>>
notSig == <<qvars, rvars, cvars, ovars, gvars, dvars, mvars, pvars, ivars,
        kvars, bvars, nvars>>
notCache == <<qvars, rvars, cvars, ovars, gvars, dvars, mvars, pvars,
        ivars, svars, bvars, nvars>>
notByte == <<qvars, rvars, cvars, ovars, gvars, dvars, mvars, pvars, ivars,
        svars, kvars, nvars>>
notNudge == <<qvars, rvars, cvars, ovars, gvars, dvars, mvars, pvars,
        ivars, svars, kvars, bvars>>

(***************************************************************************)
(* Program constants of tasks.py (their defaults).                         *)
(***************************************************************************)
MAX_RETRIES == 3
VIS_TIMEOUT == 120
MAX_DEPTH == 4

(***************************************************************************)
(* Bounds of the model.                                                    *)
(***************************************************************************)
MaxPayloads == 2        \* distinct payloads ever enqueued
MaxNow == 1             \* seconds the queue's clock may advance

Payloads == 1..MaxPayloads
Depths == 0..(MAX_DEPTH + 1)

(***************************************************************************)
(* json.dumps / json.loads of the two dicts tasks.py stores: the stored    *)
(* text is a sequence of <<key, value>> pairs in the dict's key order,     *)
(* loads reads each key back by name.                                      *)
(***************************************************************************)
json_dumps(keys, d) == [i \in 1..Len(keys) |-> <<keys[i], d[keys[i]]>>]

json_get(raw, k) == raw[CHOOSE i \in 1..Len(raw) : raw[i][1] = k][2]

json_loads(raw) == [k \in {raw[i][1] : i \in 1..Len(raw)} |-> json_get(raw, k)]

JobKeys == <<"payload", "retries", "visible_at", "depth">>
DeadKeys == <<"payload", "reason">>

NoJob == [payload |-> 0, retries |-> 0, visible_at |-> 0, depth |-> 0]

\* redis list commands on a list value
lpush(list, v) == <<v>> \o list
rpush(list, v) == Append(list, v)

(***************************************************************************)
(* TaskQueue.enqueue(payload, depth), tasks.py:34-52.  conn is self._r,    *)
(* t is time.time().  Returns the two lists.                               *)
(***************************************************************************)
enqueue_deep_at_limit(conn, Q, D, payload, depth, t) ==
    IF depth >= MAX_DEPTH
    THEN [QUEUE |-> Q,
          DLQ |-> IF conn
                  THEN lpush(D, json_dumps(DeadKeys,
                         [payload |-> payload, reason |-> "depth_exceeded"]))
                  ELSE D]
    ELSE [QUEUE |-> IF conn
                    THEN rpush(Q, json_dumps(JobKeys,
                           [payload |-> payload, retries |-> 0,
                            visible_at |-> t, depth |-> depth]))
                    ELSE Q,
          DLQ |-> D]

enqueue(conn, Q, D, payload, depth, t) ==
    IF depth > MAX_DEPTH
    THEN [QUEUE |-> Q,
          DLQ |-> IF conn
                  THEN lpush(D, json_dumps(DeadKeys,
                         [payload |-> payload, reason |-> "depth_exceeded"]))
                  ELSE D]
    ELSE [QUEUE |-> IF conn
                    THEN rpush(Q, json_dumps(JobKeys,
                           [payload |-> payload, retries |-> 0,
                            visible_at |-> t, depth |-> depth]))
                    ELSE Q,
          DLQ |-> D]

(***************************************************************************)
(* TaskQueue.poll(), tasks.py:54-72.  Returns the two lists and the job    *)
(* handed to the caller (NoJob for None).                                  *)
(***************************************************************************)
poll_dead_at_limit(conn, Q, D, t) ==
    IF ~conn \/ Q = <<>>
    THEN [QUEUE |-> Q, DLQ |-> D, job |-> NoJob]
    ELSE LET j == json_loads(Head(Q)) IN
         IF j.retries >= MAX_RETRIES
         THEN [QUEUE |-> Tail(Q),
               DLQ |-> lpush(D, json_dumps(DeadKeys,
                         [payload |-> j.payload, reason |-> "retries_exceeded"])),
               job |-> NoJob]
         ELSE [QUEUE |-> Tail(Q), DLQ |-> D,
               job |-> [j EXCEPT !.visible_at = t + VIS_TIMEOUT]]

poll(conn, Q, D, t) ==
    IF ~conn \/ Q = <<>>
    THEN [QUEUE |-> Q, DLQ |-> D, job |-> NoJob]
    ELSE LET j == json_loads(Head(Q)) IN
         IF j.retries > MAX_RETRIES
         THEN [QUEUE |-> Tail(Q),
               DLQ |-> lpush(D, json_dumps(DeadKeys,
                         [payload |-> j.payload, reason |-> "retries_exceeded"])),
               job |-> NoJob]
         ELSE [QUEUE |-> Tail(Q), DLQ |-> D,
               job |-> [j EXCEPT !.visible_at = t + VIS_TIMEOUT]]

(***************************************************************************)
(* TaskQueue.fail(job), tasks.py:74-77: the new QUEUE.                     *)
(***************************************************************************)
fail_keeps_retries(conn, Q, j) ==
    IF conn THEN lpush(Q, json_dumps(JobKeys, j)) ELSE Q

fail(conn, Q, j) ==
    LET j2 == [j EXCEPT !.retries = j.retries + 1] IN
    IF conn THEN lpush(Q, json_dumps(JobKeys, j2)) ELSE Q

(***************************************************************************)
(* What the handler does with the outcome of its work.                     *)
(*   "_handler"  server.py:187-198 wraps the pipeline run in               *)
(*               try/except Exception: pass, so it returns either way.     *)
(*   "raising"   a handler that lets its exception reach worker_loop.      *)
(***************************************************************************)
Handlers == {"_handler", "raising"}

handler_result(h, outcome) ==
    IF h = "_handler" THEN "return"
    ELSE IF outcome = "ok" THEN "return" ELSE "raise"

\* the record lastOp holds: the operation and, for an enqueue, its arguments
Op(op, payload, depth) ==
    [op |-> op, payload |-> payload, depth |-> depth, outcome |-> "none"]
\* for succeed and fail: how the run the handler wraps ended ("ok", "raise")
Handled(op, outcome) == [Op(op, 0, 0) EXCEPT !.outcome = outcome]

InitQueue ==
    /\ task_queue = "None"
    /\ r = FALSE
    /\ QUEUE = <<>>
    /\ DLQ = <<>>
    /\ worker = "none"
    /\ job = NoJob
    /\ handler \in Handlers
    /\ now = 0
    /\ task_enqueued_total = 0
    /\ accepted = {}
    /\ succeeded = {}
    /\ order = <<>>
    /\ lastOp = Op("none", 0, 0)

\* the state of the queue in a specification that does not use it
IdleQueue == InitQueue /\ handler = "_handler"

\* server._load_services, server.py:178-199: create the queue; with
\* TASK_WORKER_ENABLED create the worker task.
load_services(enabled) ==
    /\ task_queue = "None"
    /\ task_queue' = "TaskQueue"
    /\ worker' = IF enabled THEN "connect" ELSE "none"
    /\ lastOp' = Op("startup", 0, 0)
    /\ UNCHANGED notQueue
    /\ UNCHANGED <<r, QUEUE, DLQ, job, handler, now, task_enqueued_total,
                   accepted, succeeded, order>>

\* worker_loop, tasks.py:85: await q.connect()
worker_connect ==
    /\ worker = "connect"
    /\ r' = TRUE
    /\ worker' = "poll"
    /\ lastOp' = Op("connect", 0, 0)
    /\ UNCHANGED notQueue
    /\ UNCHANGED <<task_queue, QUEUE, DLQ, job, handler, now,
                   task_enqueued_total, accepted, succeeded, order>>

\* server.enqueue_task, server.py:630-638: connect, then enqueue at depth 0.
enqueue_task(p) ==
    /\ task_queue = "TaskQueue"
    /\ worker # "cancelled"
    /\ p \notin accepted
    /\ LET res == enqueue(TRUE, QUEUE, DLQ, p, 0, now) IN
         /\ QUEUE' = res.QUEUE
         /\ DLQ' = res.DLQ
         /\ order' = IF res.QUEUE # QUEUE THEN Append(order, p) ELSE order
    /\ r' = TRUE
    /\ task_enqueued_total' = task_enqueued_total + 1
    /\ accepted' = accepted \cup {p}
    /\ lastOp' = Op("enqueue", p, 0)
    /\ UNCHANGED notQueue
    /\ UNCHANGED <<task_queue, worker, job, handler, now, succeeded>>

\* worker_loop, tasks.py:87-88, 91: one poll() of a QUEUE that holds a job.
worker_poll ==
    /\ worker = "poll"
    /\ QUEUE # <<>>
    /\ LET res == poll(r, QUEUE, DLQ, now) IN
         /\ QUEUE' = res.QUEUE
         /\ DLQ' = res.DLQ
         /\ job' = res.job
         /\ worker' = IF res.job = NoJob THEN "poll" ELSE "handler"
    /\ order' = SelectSeq(order,
                          LAMBDA p : p # json_loads(Head(QUEUE)).payload)
    /\ lastOp' = Op("poll", 0, 0)
    /\ UNCHANGED notQueue
    /\ UNCHANGED <<task_queue, r, handler, now, task_enqueued_total,
                   accepted, succeeded>>

\* worker_loop, tasks.py:91-95: the handler ends; succeed() or fail().
worker_handle(outcome) ==
    /\ worker = "handler"
    /\ IF handler_result(handler, outcome) = "return"
       THEN /\ succeeded' = succeeded \cup {job.payload}
            /\ lastOp' = Handled("succeed", outcome)
            /\ UNCHANGED <<QUEUE, order>>
       ELSE /\ QUEUE' = fail(r, QUEUE, job)
            /\ order' = Append(order, job.payload)
            /\ lastOp' = Handled("fail", outcome)
            /\ UNCHANGED succeeded
    /\ worker' = "poll"
    /\ job' = NoJob
    /\ UNCHANGED notQueue
    /\ UNCHANGED <<task_queue, r, DLQ, handler, now, task_enqueued_total,
                   accepted>>

\* worker_loop, tasks.py:87: q.poll() is awaited outside of the try block, so
\* an error of the store inside it ends the worker task.  at "lpop" nothing
\* was taken; at "lpush" the job was taken (retries > MAX_RETRIES) and the
\* write to the DLQ failed.
worker_poll_error(at) ==
    /\ worker = "poll"
    /\ r
    /\ IF at = "lpop"
       THEN /\ lastOp' = Handled("store_error", at)
            /\ UNCHANGED <<QUEUE, order>>
       ELSE /\ QUEUE # <<>>
            /\ json_loads(Head(QUEUE)).retries > MAX_RETRIES
            /\ QUEUE' = Tail(QUEUE)
            /\ order' = SelectSeq(order,
                             LAMBDA p : p # json_loads(Head(QUEUE)).payload)
            /\ lastOp' = [Handled("store_error", at) EXCEPT
                              !.payload = json_loads(Head(QUEUE)).payload]
    /\ worker' = "crashed"
    /\ job' = NoJob
    /\ UNCHANGED notQueue
    /\ UNCHANGED <<task_queue, r, DLQ, handler, now, task_enqueued_total,
                   accepted, succeeded>>

\* worker_loop, tasks.py:94-95: the handler raised and the lpush of q.fail()
\* fails: the exception leaves the except clause and ends the worker task
worker_fail_error ==
    /\ worker = "handler"
    /\ r
    /\ handler_result(handler, "raise") = "raise"
    /\ worker' = "crashed"
    /\ job' = NoJob
    /\ lastOp' = [Handled("store_error", "requeue") EXCEPT
                      !.payload = job.payload]
    /\ UNCHANGED notQueue
    /\ UNCHANGED <<task_queue, r, QUEUE, DLQ, handler, now,
                   task_enqueued_total, accepted, succeeded, order>>

\* A "raising" handler that spawns a sub-task while it runs: q.enqueue(p, d)
\* on the queue worker_loop connected.
handler_spawn(p, d) ==
    /\ worker = "handler"
    /\ handler = "raising"
    /\ p \notin accepted
    /\ LET res == enqueue(r, QUEUE, DLQ, p, d, now) IN
         /\ QUEUE' = res.QUEUE
         /\ DLQ' = res.DLQ
         /\ order' = IF res.QUEUE # QUEUE THEN Append(order, p) ELSE order
    /\ accepted' = accepted \cup {p}
    /\ lastOp' = Op("spawn", p, d)
    /\ UNCHANGED notQueue
    /\ UNCHANGED <<task_queue, r, worker, job, handler, now,
                   task_enqueued_total, succeeded>>

\* server._shutdown, server.py:202-209: _worker_task.cancel().  CancelledError
\* is not an Exception: it passes _handler's and worker_loop's except clauses,
\* the task ends and the job it held is dropped with it.
shutdown ==
    /\ task_queue = "TaskQueue"
    /\ worker \in {"connect", "poll", "handler"}
    /\ worker' = "cancelled"
    /\ job' = NoJob
    /\ lastOp' = Op("shutdown", 0, 0)
    /\ UNCHANGED notQueue
    /\ UNCHANGED <<task_queue, r, QUEUE, DLQ, handler, now,
                   task_enqueued_total, accepted, succeeded, order>>

\* worker_loop, tasks.py:87-90: poll() finds QUEUE empty and returns None; the
\* loop sleeps 1.0 s.
tick ==
    /\ worker = "poll"
    /\ QUEUE = <<>>
    /\ poll(r, QUEUE, DLQ, now).job = NoJob
    /\ now < MaxNow
    /\ now' = now + 1
    /\ lastOp' = Op("tick", 0, 0)
    /\ UNCHANGED notQueue
    /\ UNCHANGED <<task_queue, r, QUEUE, DLQ, worker, job, handler,
                   task_enqueued_total, accepted, succeeded, order>>

NextQueue ==
    \/ \E enabled \in BOOLEAN : load_services(enabled)
    \/ worker_connect
    \/ \E p \in Payloads : enqueue_task(p)
    \/ worker_poll
    \/ \E outcome \in {"ok", "raise"} : worker_handle(outcome)
    \/ \E p \in Payloads, d \in Depths : handler_spawn(p, d)
    \/ shutdown
    \/ tick
    \/ \E at \in {"lpop", "lpush"} : worker_poll_error(at)
    \/ worker_fail_error


(***************************************************************************)
(* Properties of the task queue.                                           *)
(***************************************************************************)
QueuedJobs == {json_loads(QUEUE[i]) : i \in 1..Len(QUEUE)}
DeadJobs == {json_loads(DLQ[i]) : i \in 1..Len(DLQ)}
Dead(p, reason) == json_dumps(DeadKeys, [payload |-> p, reason |-> reason])

\* list with its i-th element removed
Without(list, i) == SubSeq(list, 1, i - 1) \o SubSeq(list, i + 1, Len(list))

\* C1: no payload is lost: every payload enqueue() accepted is, at every
\* moment, waiting in QUEUE, held by the running worker, handled (the handler
\* returned and succeed() ran) or in the DLQ.
C1_NoPayloadLost ==
    \A p \in accepted :
        \/ \E j \in QueuedJobs : j.payload = p
        \/ \E j \in DeadJobs : j.payload = p
        \/ p \in succeeded
        \/ worker = "handler" /\ job.payload = p

\* C2: a step in which the handler raised (fail() ran) puts the held job
\* back on QUEUE with retries + 1, the same payload and the same depth, and
\* changes nothing else on QUEUE.
C2_FailRequeues ==
    [][lastOp'.op = "fail" =>
         \E i \in 1..Len(QUEUE') :
            LET j == json_loads(QUEUE'[i]) IN
              /\ j.payload = job.payload
              /\ j.retries = job.retries + 1
              /\ j.depth = job.depth
              /\ Without(QUEUE', i) = QUEUE]_vars

C2_Witness ==
    /\ lastOp.op = "fail"
    /\ QUEUE # <<>>
    /\ json_loads(Head(QUEUE)).retries = 2
    /\ json_loads(Head(QUEUE)).depth > 0

\* C3: a poll() that takes a job with retries > MAX_RETRIES moves it to the
\* DLQ with reason "retries_exceeded" and hands nothing to the handler; a
\* poll() that takes a job with retries <= MAX_RETRIES hands it to the handler
\* and leaves the DLQ alone; and no other step adds a "retries_exceeded" entry.
C3_RetriesExceeded ==
    [][/\ lastOp'.op = "poll" =>
            LET j == json_loads(Head(QUEUE)) IN
              IF j.retries > MAX_RETRIES
              THEN /\ DLQ' = lpush(DLQ, Dead(j.payload, "retries_exceeded"))
                   /\ job' = NoJob
                   /\ worker' = "poll"
              ELSE /\ DLQ' = DLQ
                   /\ job'.payload = j.payload
                   /\ worker' = "handler"
       /\ (DLQ' # DLQ /\ json_loads(Head(DLQ')).reason = "retries_exceeded") =>
            /\ lastOp'.op = "poll"
            /\ json_loads(Head(QUEUE)).retries > MAX_RETRIES]_vars

C3_Witness ==
    /\ lastOp.op = "poll"
    /\ DLQ # <<>>
    /\ json_loads(Head(DLQ)).reason = "retries_exceeded"

\* C4: an enqueue at depth > MAX_DEPTH pushes {payload, "depth_exceeded"} on
\* the DLQ and leaves QUEUE alone; an enqueue at depth <= MAX_DEPTH appends a
\* job with retries 0 and that depth to QUEUE and leaves the DLQ alone; QUEUE
\* never holds a job deeper than MAX_DEPTH.
C4_EnqueueDepth ==
    /\ [](\A j \in QueuedJobs : j.depth <= MAX_DEPTH)
    /\ [][lastOp'.op \in {"enqueue", "spawn"} =>
            IF lastOp'.depth > MAX_DEPTH
            THEN /\ DLQ' = lpush(DLQ, Dead(lastOp'.payload, "depth_exceeded"))
                 /\ QUEUE' = QUEUE
            ELSE /\ DLQ' = DLQ
                 /\ Len(QUEUE') = Len(QUEUE) + 1
                 /\ SubSeq(QUEUE', 1, Len(QUEUE)) = QUEUE
                 /\ LET j == json_loads(QUEUE'[Len(QUEUE')]) IN
                      /\ j.payload = lastOp'.payload
                      /\ j.retries = 0
                      /\ j.depth = lastOp'.depth]_vars

C4_Witness ==
    /\ lastOp.op = "spawn"
    /\ lastOp.depth > MAX_DEPTH
    /\ DLQ # <<>>
    /\ Head(DLQ) = Dead(lastOp.payload, "depth_exceeded")
    /\ \A j \in QueuedJobs : j.payload # lastOp.payload

\* C5: FIFO: every poll() takes, of the jobs waiting in QUEUE, the one whose
\* insertion (by enqueue() or by fail()) is the earliest.
C5_FIFO ==
    [][lastOp'.op = "poll" =>
          json_loads(Head(QUEUE)).payload = Head(order)]_vars

(***************************************************************************)
(* The rate limiter, server.py:98-162.                                     *)
(*                                                                         *)
(* Token counts are held multiplied by PerMinuteMs, so that the script's   *)
(* refill (rate / 60000.0) * elapsed is the integer rate * elapsed.        *)
(***************************************************************************)
PerMinuteMs == 60000    \* the script's 60000.0
ttl == 120              \* the script's ttl, seconds

MaxRequests == 3        \* requests made in one behaviour
MaxTicks == 3           \* clock steps in one behaviour

\* X-User-Id header values ("" is no header)
UserHeaders == {"", "u1"}
UserIds == {"global", "u1"}
\* (RATE_LIMIT_PER_MIN, RATE_LIMIT_BURST) settings
RateConfigs == {<<0, 1>>, <<60, 1>>, <<60, 2>>, <<120, 3>>}
\* clock steps, ms: within a second, a second, the bucket key's lifetime
TickSteps == {400, 1000, ttl * 1000}

Min(a, b) == IF a < b THEN a ELSE b
Max(a, b) == IF a > b THEN a ELSE b

NoBucket == [exists |-> FALSE, tokens |-> 0, ts |-> 0, expire |-> 0]

\* Redis turns the Lua number a script returns into an integer reply by
\* dropping its fraction.
lua_number_to_redis_integer(scaled) == scaled \div PerMinuteMs

\* _TOKEN_BUCKET_SCRIPT, server.py:98-120, run atomically by Redis on the
\* hash b at time t: the hash it leaves, its reply, and (for the properties)
\* the token count after the refill.
TOKEN_BUCKET_SCRIPT(b, t, rate, burst) ==
    LET live == b.exists /\ t < b.expire
        tokens0 == IF live THEN b.tokens ELSE burst * PerMinuteMs
        ts0 == IF live THEN b.ts ELSE t
        elapsed == Max(0, t - ts0)
        refill == rate * elapsed
        tokens1 == Min(burst * PerMinuteMs, tokens0 + refill)
        tokens2 == IF tokens1 < PerMinuteMs THEN tokens1
                   ELSE tokens1 - PerMinuteMs
    IN [bucket |-> [exists |-> TRUE, tokens |-> tokens2, ts |-> t,
                    expire |-> t + ttl * 1000],
        reply |-> IF tokens1 < PerMinuteMs THEN 0
                  ELSE lua_number_to_redis_integer(tokens2),
        refilled |-> tokens1]

\* _rate_limiter, server.py:123-142.  redis_ok = FALSE is any exception of
\* the Redis call, which the function answers with True.
rate_limiter(rate, burst, b, t, redis_ok) ==
    IF rate <= 0
    THEN [allowed |-> TRUE, bucket |-> b, ran |-> FALSE, refilled |-> 0]
    ELSE IF ~redis_ok
    THEN [allowed |-> TRUE, bucket |-> b, ran |-> FALSE, refilled |-> 0]
    ELSE LET res == TOKEN_BUCKET_SCRIPT(b, t, rate, burst) IN
         [allowed |-> res.reply # 0, bucket |-> res.bucket, ran |-> TRUE,
          refilled |-> res.refilled]

\* a time window of one caller: it starts with an admitted request, and
\* counts the requests admitted from then on, up to the time of the last
NoWindow == [user |-> "", start |-> 0, last |-> 0, count |-> 0]

NoReq == [user |-> "", ran |-> FALSE, refilled |-> 0, answer |-> "none",
          since |-> -1, consumed |-> 0, window |-> NoWindow]

InitRate ==
    /\ \E cfg \in RateConfigs :
          RATE_LIMIT_PER_MIN = cfg[1] /\ RATE_LIMIT_BURST = cfg[2]
    /\ buckets = [u \in UserIds |-> NoBucket]
    /\ now_ms = 0
    /\ ticks = 0
    /\ http_requests_total = 0
    /\ rate_limited_total = 0
    /\ lastReq = NoReq

\* the state of the limiter in a specification that makes no request
IdleRate ==
    /\ RATE_LIMIT_PER_MIN = 0
    /\ RATE_LIMIT_BURST = 1
    /\ buckets = [u \in UserIds |-> NoBucket]
    /\ now_ms = 0
    /\ ticks = 0
    /\ http_requests_total = 0
    /\ rate_limited_total = 0
    /\ lastReq = NoReq

\* rate_limit_and_timeout, server.py:145-162, for one request: count it, ask
\* the limiter, answer 429 or pass the request on.
rate_limit_and_timeout(header, redis_ok, restart) ==
    /\ http_requests_total < MaxRequests
    /\ LET user_id == IF header = "" THEN "global" ELSE header
           res == rate_limiter(RATE_LIMIT_PER_MIN, RATE_LIMIT_BURST,
                               buckets[user_id], now_ms, redis_ok)
       IN /\ buckets' = [buckets EXCEPT ![user_id] = res.bucket]
          /\ rate_limited_total' =
                IF res.allowed THEN rate_limited_total
                ELSE rate_limited_total + 1
          /\ lastReq' = [user |-> user_id, ran |-> res.ran,
                         refilled |-> res.refilled,
                         answer |-> IF res.allowed THEN "call_next" ELSE "429",
                         since |-> IF buckets[user_id].exists
                                   THEN now_ms - buckets[user_id].ts ELSE -1,
                         consumed |-> IF res.ran
                                      THEN res.refilled - res.bucket.tokens
                                      ELSE 0,
                         \* history: any admitted request may open a window
                         window |->
                             IF ~res.allowed THEN lastReq.window
                             ELSE IF restart \/ lastReq.window.user # user_id
                             THEN [user |-> user_id, start |-> now_ms,
                                   last |-> now_ms, count |-> 1]
                             ELSE [lastReq.window EXCEPT
                                       !.last = now_ms, !.count = @ + 1]]
    /\ http_requests_total' = http_requests_total + 1
    /\ UNCHANGED <<RATE_LIMIT_PER_MIN, RATE_LIMIT_BURST, now_ms, ticks>>
    /\ UNCHANGED notRate

\* time passes
tick_ms(d) ==
    /\ ticks < MaxTicks
    /\ ticks' = ticks + 1
    /\ now_ms' = now_ms + d
    /\ UNCHANGED <<RATE_LIMIT_PER_MIN, RATE_LIMIT_BURST, buckets,
                   http_requests_total, rate_limited_total, lastReq>>
    /\ UNCHANGED notRate

NextRate ==
    \/ \E header \in UserHeaders, redis_ok \in BOOLEAN, restart \in BOOLEAN :
          rate_limit_and_timeout(header, redis_ok, restart)
    \/ \E d \in TickSteps : tick_ms(d)

\* C6: whenever the limiter ran its script for a request, the request was
\* passed on if and only if the bucket held at least one token after the
\* refill, and then exactly one token was consumed; otherwise it was answered
\* 429.  With burst 1 and 60 per minute, a request less than a second after
\* the same caller's previous one is answered 429.
C6_ProceedsIffToken ==
    /\ lastReq.ran =>
         /\ lastReq.answer = "call_next" <=> lastReq.refilled >= PerMinuteMs
         /\ lastReq.answer = "429" <=> lastReq.refilled < PerMinuteMs
         /\ lastReq.answer = "call_next" => lastReq.consumed = PerMinuteMs
    /\ ( /\ lastReq.ran
         /\ RATE_LIMIT_BURST = 1 /\ RATE_LIMIT_PER_MIN = 60
         /\ lastReq.since >= 0 /\ lastReq.since < 1000 )
       => lastReq.answer = "429"


(***************************************************************************)
(* The chat pipeline, server.py:217-598: one request to                    *)
(* /v1/chat/completions.  Every call of a service is a step; its outcome   *)
(* (an answer, or an exception of Svc.get / Svc.post, http.py:38-66) is an *)
(* input of the step.  PIPELINE_TIMEOUT is 0 (its default, no timeout).    *)
(***************************************************************************)
Lanes == {"general", "mm_image", "mm_audio", "tech"}

NoCtx == [intent |-> "unset", needs_remote |-> FALSE, system_addenda |-> <<>>,
          final_text |-> "unset"]

NoEnrich == [mem |-> "todo", summary |-> "todo", affect |-> "todo",
             drive |-> "todo"]

NoDraft == [content |-> "unset", tool_calls |-> 0]

\* the last post to /tools/exec: the kind of arguments the model gave and the
\* arguments sent
NoPost == [kind |-> "none", arguments |-> "none"]

\* reply is what router.chat_complete returned last, draft the local it was
\* assigned to
NoLoop == [iter |-> 0, pending |-> 0, messages |-> <<>>, tools |-> FALSE,
           draft |-> NoDraft, max_iters |-> 0, reply |-> NoDraft,
           posted |-> NoPost]

NoOut == [status |-> 0, text |-> "", raisedIn |-> "none", cause |-> "none"]

\* messages: did the body carry messages; endpoint: which handler serves the
\* request; deltas and closed: the chunks the streaming answer relayed and
\* how it ended
NoHist == [reached |-> {}, postFailed |-> {}, modelCalls |-> 0,
           modelFailures |-> 0, mid_text |-> "unset", messages |-> "unread",
           endpoint |-> "none", deltas |-> 0, closed |-> "no"]

\* an exception nothing catches: the framework answers 500
Raised(stage, what) ==
    [status |-> 500, text |-> "Internal Server Error", raisedIn |-> stage,
     cause |-> what]

\* one entry of ctx["system_addenda"]
Addendum(kind, sections) == [kind |-> kind, sections |-> sections]

InitChat ==
    /\ pc = "recv"
    /\ ctx = NoCtx
    /\ enrich = NoEnrich
    /\ loop = NoLoop
    /\ out = NoOut
    /\ hist = NoHist

IdleChat == InitChat

\* chat_completions, server.py:576-581: the body is read; without messages the
\* handler returns {"error": ...} (FastAPI sends it with status 200).
chat_completions(has_messages) ==
    /\ pc = "recv"
    /\ IF has_messages
       THEN pc' = "pre_intent" /\ out' = out
       ELSE /\ pc' = "done"
            /\ out' = [out EXCEPT !.status = 200, !.text = "error: messages required"]
    /\ hist' = [hist EXCEPT !.endpoint = "sync",
                  !.messages = IF has_messages THEN "present" ELSE "missing"]
    /\ UNCHANGED <<ctx, enrich, loop>>
    /\ UNCHANGED notChat

\* chat_completions_stream, server.py:601-606: the same check of the body,
\* then _pre.
chat_completions_stream(has_messages) ==
    /\ pc = "recv"
    /\ IF has_messages
       THEN pc' = "pre_intent" /\ out' = out
       ELSE /\ pc' = "done"
            /\ out' = [out EXCEPT !.status = 200, !.text = "error: messages required"]
    /\ hist' = [hist EXCEPT !.endpoint = "stream",
                  !.messages = IF has_messages THEN "present" ELSE "missing"]
    /\ UNCHANGED <<ctx, enrich, loop>>
    /\ UNCHANGED notChat

\* _pre, server.py:224-259: classify the intent; on an exception log it to
\* telemetry and use {"intent": "general"}; then the remote-model heuristic.
pre_intent(ok, lane, remote, heuristic, tel_ok) ==
    /\ pc = "pre_intent"
    /\ IF ~ok /\ ~tel_ok
       THEN /\ pc' = "error"
            /\ out' = Raised("pre", "intent_error")
            /\ UNCHANGED <<ctx, enrich>>
       ELSE LET intent == IF ok THEN lane ELSE "general"
                needs == (ok /\ remote) \/ heuristic
            IN /\ ctx' = [ctx EXCEPT !.intent = intent, !.needs_remote = needs]
               /\ pc' = IF intent = "mm_image" THEN "pre_image"
                        ELSE IF intent = "mm_audio" THEN "pre_audio"
                        ELSE "pre_gather"
               /\ enrich' = IF intent \in {"mm_image", "mm_audio"} THEN enrich
                            ELSE [b \in DOMAIN enrich |-> "run"]
               /\ out' = out
    /\ UNCHANGED <<loop, hist>>
    /\ UNCHANGED notChat

\* _pre, server.py:269-302: the image lane.  FastVLM, then on its failure a
\* telemetry event and the multimodal router, then on that failure another
\* telemetry event; observations are injected as a [VISION_OBS] addendum.
pre_image(fast_ok, tel_ok, mm_ok, tel2_ok, has_obs) ==
    /\ pc = "pre_image"
    /\ IF ~fast_ok /\ ~tel_ok
       THEN /\ pc' = "error"
            /\ out' = Raised("pre", "multimodal_fallback")
            /\ UNCHANGED <<ctx, enrich>>
       ELSE IF ~fast_ok /\ ~mm_ok /\ ~tel2_ok
       THEN /\ pc' = "error"
            /\ out' = Raised("pre", "multimodal_failure")
            /\ UNCHANGED <<ctx, enrich>>
       ELSE LET obs == (fast_ok \/ mm_ok) /\ has_obs IN
            /\ ctx' = IF obs
                      THEN [ctx EXCEPT !.system_addenda =
                              Append(@, Addendum("VISION_OBS", <<>>))]
                      ELSE ctx
            /\ pc' = "pre_gather"
            /\ enrich' = [b \in DOMAIN enrich |-> "run"]
            /\ out' = out
    /\ UNCHANGED <<loop, hist>>
    /\ UNCHANGED notChat

\* _pre, server.py:305-334: the audio lane.
pre_audio(audio_ref, mm_ok, tel_ok, has_obs) ==
    /\ pc = "pre_audio"
    /\ IF audio_ref /\ ~mm_ok /\ ~tel_ok
       THEN /\ pc' = "error"
            /\ out' = Raised("pre", "multimodal_fallback")
            /\ UNCHANGED <<ctx, enrich>>
       ELSE LET obs == audio_ref /\ mm_ok /\ has_obs IN
            /\ ctx' = IF obs
                      THEN [ctx EXCEPT !.system_addenda =
                              Append(@, Addendum("VISION_OBS", <<>>))]
                      ELSE ctx
            /\ pc' = "pre_gather"
            /\ enrich' = [b \in DOMAIN enrich |-> "run"]
            /\ out' = out
    /\ UNCHANGED <<loop, hist>>
    /\ UNCHANGED notChat

\* One step of a coroutine of the gather, server.py:339-402.  The call either
\* answers (the coroutine moves to `next`), or raises and the except clause
\* logs to telemetry and returns the default; when that telemetry call raises
\* too, the coroutine raises, and gather passes the first such exception on
\* to _pre at once (the other coroutines keep running).
branch_step(b, ok, next, tel_ok, event) ==
    /\ IF ok THEN enrich' = [enrich EXCEPT ![b] = next] /\ pc' = pc /\ out' = out
       ELSE IF tel_ok
       THEN enrich' = [enrich EXCEPT ![b] = "default"] /\ pc' = pc /\ out' = out
       ELSE /\ enrich' = [enrich EXCEPT ![b] = "raised"]
            /\ pc' = IF pc = "pre_gather" THEN "error" ELSE pc
            /\ out' = IF pc = "pre_gather" THEN Raised("pre", event) ELSE out
    /\ UNCHANGED <<ctx, loop, hist>>
    /\ UNCHANGED notChat

_mem_retrieve(ok, items, tel_ok) ==
    /\ enrich.mem = "run"
    /\ branch_step("mem", ok, IF items THEN "items" ELSE "no_items", tel_ok,
                   "memory_retrieve_error")

_mem_summary(ok, tel_ok) ==
    /\ enrich.summary = "run"
    /\ branch_step("summary", ok, "reply", tel_ok, "memory_summary_error")

_affect(ok, tel_ok) ==
    /\ enrich.affect \in {"run", "tone"}
    /\ branch_step("affect", ok, IF enrich.affect = "run" THEN "tone" ELSE "reply",
                   tel_ok, "affect_error")

_drive(ok, tel_ok) ==
    /\ enrich.drive \in {"run", "policy"}
    /\ branch_step("drive", ok, IF enrich.drive = "run" THEN "policy" ELSE "reply",
                   tel_ok, "drive_error")

\* the gather returns while coroutines are still running
BranchReturned_or_running ==
    {"items", "no_items", "reply", "default", "run", "tone", "policy"}

\* the states of a coroutine of the gather that has returned its result
BranchReturned == {"items", "no_items", "reply", "default"}

\* the text _pre joins from the enrichment results, server.py:436-444
addendum(e) ==
    Addendum("enrichment",
        <<"MEMORY SUMMARY">>
        \o (IF e.mem = "items" THEN <<"RELEVANT EPISODES">> ELSE <<>>)
        \o <<"AFFECT", "TONE_POLICY", "DRIVE_HINTS">>)

\* _pre, server.py:400-454, once the gather has returned: apply the lane
\* policy (lanes other than general, mm_image, mm_audio), assemble the
\* addenda, return ctx (the coroutines' results are locals of _pre and end
\* with it; of the copies kept in ctx, "__affect", "__tone" and "__drive",
\* only the tone is read again, for the merger's payload, and the merger's
\* answer is an input of mid_merge).
pre_policy(ok, has_final, tel_ok) ==
    /\ pc = "pre_gather"
    /\ \A b \in DOMAIN enrich : enrich[b] \in BranchReturned
    /\ LET applies == ctx.intent \notin {"general", "mm_image", "mm_audio"} IN
       IF applies /\ ~ok /\ ~tel_ok
       THEN /\ pc' = "error"
            /\ out' = Raised("pre", "policy_apply_error")
            /\ UNCHANGED <<ctx, hist>>
       ELSE LET lane_policy_prompt == applies /\ ok /\ has_final
                first == IF lane_policy_prompt
                         THEN <<Addendum("system_final", <<>>)>> ELSE <<>>
            IN /\ ctx' = [ctx EXCEPT !.system_addenda =
                                        first \o @ \o <<addendum(enrich)>>]
               /\ pc' = IF hist.endpoint = "stream" THEN "stream_tools"
                        ELSE "mid_tools"
               /\ hist' = [hist EXCEPT !.reached = @ \cup {"pre_done"}]
               /\ out' = out
    /\ enrich' = IF pc' = "error" THEN enrich ELSE NoEnrich
    /\ UNCHANGED loop
    /\ UNCHANGED notChat


(***************************************************************************)
(* _mid, server.py:500-533, with _tool_call_loop (475-497) and             *)
(* _execute_tool (457-472).                                                *)
(***************************************************************************)
max_iters == 3          \* _tool_call_loop's default, the one _mid uses
MaxToolCalls == 1       \* tool calls in one model response

\* for _ in range(max_iters), server.py:480: is round i + 1 run?
in_range_inclusive(i, n) == i <= n

in_range(i, n) == i < n

\* S["tools"].post("/tools/exec", ...), http.py:50-66 with the Tool Hub's
\* execute_tool, app.py:207-227: an answer with a result, an answer with an
\* error (the tool reported a failure: status 200), or an exception (the hub is
\* unreachable or answered 4xx/5xx and raise_for_status raised).
ToolOutcomes == {"result", "error", "raise"}

\* msg.get("content") of a model response: a text, "" or null
Contents == {"text", "", "None"}
\* call["function"]["arguments"]: a JSON object as a string, a string that
\* is no JSON, or an object already decoded
ArgKinds == {"json_string", "bad_string", "object"}

Message(role, kind, sections) ==
    [role |-> role, content |-> Addendum(kind, sections)]

\* _mid, server.py:504-507: the system prompt, one system message per
\* addendum, then the request's messages
mid_messages(c) ==
    <<Message("system", "base", <<>>)>>
    \o [i \in 1..Len(c.system_addenda) |->
          [role |-> "system", content |-> c.system_addenda[i]]]
    \o <<Message("user", "user", <<>>)>>

\* ModelRouter.chat_complete, providers.py:21-26, 84-97: the remote reply is
\* returned as it came; of the local reply only the content is kept.
chat_complete(needs_remote, reply) ==
    IF needs_remote THEN reply
    ELSE [content |-> reply.content, tool_calls |-> 0]

\* _execute_tool, server.py:461-464: json.loads of the arguments; any
\* exception (no JSON, or not a string at all) gives {}.
tool_args(kind) == IF kind = "json_string" THEN "parsed" ELSE "{}"

\* _mid, server.py:521-532
final_text(merged, draft_text) ==
    IF merged.text \notin {"", "None"} THEN merged.text
    ELSE IF merged.final_text # "absent" THEN merged.final_text
    ELSE draft_text

\* the JSON object of the merger's answer: "text" with a text or empty,
\* "final_text" absent, empty, or with a text
MergerReplies ==
    {[text |-> "merged", final_text |-> "absent"],
     [text |-> "", final_text |-> "absent"],
     [text |-> "", final_text |-> "final"],
     [text |-> "", final_text |-> ""]}

\* _mid, server.py:503-515: build the messages, fetch the tool schema.
mid_tools(ok, has_tools) ==
    /\ pc = "mid_tools"
    /\ IF ~ok
       THEN /\ pc' = "error"
            /\ out' = Raised("mid", "tools_schema")
            /\ loop' = loop
       ELSE /\ pc' = "mid_model"
            /\ loop' = [NoLoop EXCEPT !.messages = mid_messages(ctx),
                                      !.tools = has_tools,
                                      !.max_iters = max_iters]
            /\ out' = out
    /\ UNCHANGED <<ctx, enrich, hist>>
    /\ UNCHANGED notChat

\* _tool_call_loop, server.py:480-489: one model call of the loop.
mid_model(ok, content, n) ==
    /\ pc = "mid_model"
    /\ in_range(loop.iter, loop.max_iters)
    /\ IF ~ok
       THEN /\ pc' = "error"
            /\ out' = Raised("mid", "provider")
            /\ loop' = loop
            /\ hist' = [hist EXCEPT !.modelCalls = @ + 1,
                                    !.modelFailures = @ + 1]
       ELSE LET draft == chat_complete(ctx.needs_remote,
                            [content |-> content, tool_calls |-> n])
            IN /\ loop' = [loop EXCEPT !.iter = @ + 1, !.draft = draft,
                                       !.reply = draft,
                                       !.pending = draft.tool_calls]
               /\ pc' = IF draft.tool_calls = 0 THEN "mid_merge" ELSE "mid_tool"
               /\ out' = out
               /\ hist' = [hist EXCEPT !.modelCalls = @ + 1]
    /\ UNCHANGED <<ctx, enrich>>
    /\ UNCHANGED notChat

\* _tool_call_loop, server.py:491-496, with _execute_tool, 457-472: execute
\* the next tool call and append its answer as a tool message; after the last
\* one append the assistant's content, if any, and go to the head of the loop.
mid_tool(res, kind) ==
    /\ pc = "mid_tool"
    /\ loop.pending > 0
    /\ IF res = "raise"
       THEN /\ pc' = "error"
            /\ out' = Raised("mid", "tool_exec")
            /\ loop' = [loop EXCEPT !.posted = [kind |-> kind,
                                        arguments |-> tool_args(kind)]]
       ELSE LET tool == Message("tool", "tool_result", <<res>>)
                last == loop.pending = 1
                stub == IF last /\ loop.draft.content \notin {"", "None"}
                        THEN <<Message("assistant", "draft", <<>>)>> ELSE <<>>
            IN /\ loop' = [loop EXCEPT !.pending = @ - 1,
                             !.messages = Append(@, tool) \o stub,
                             !.posted = [kind |-> kind,
                                         arguments |-> tool_args(kind)]]
               /\ pc' = IF ~last THEN "mid_tool" ELSE "mid_model"
               /\ out' = out
    /\ UNCHANGED <<ctx, enrich, hist>>
    /\ UNCHANGED notChat

\* _tool_call_loop, server.py:480, 497: range(max_iters) is used up; return
\* draft, which is unbound when the body never ran (UnboundLocalError).
mid_loop_end ==
    /\ pc = "mid_model"
    /\ ~in_range(loop.iter, loop.max_iters)
    /\ IF loop.draft = NoDraft
       THEN pc' = "error" /\ out' = Raised("mid", "UnboundLocalError")
       ELSE pc' = "mid_merge" /\ out' = out
    /\ UNCHANGED <<ctx, enrich, loop, hist>>
    /\ UNCHANGED notChat

\* _mid, server.py:521-533: the merger call and final_text; _mid returns and
\* the loop's locals end with it.
mid_merge(ok, merged) ==
    /\ pc = "mid_merge"
    /\ IF ~ok
       THEN /\ pc' = "error"
            /\ out' = Raised("mid", "merger")
            /\ UNCHANGED <<ctx, hist>>
       ELSE LET text == final_text(merged, loop.draft.content) IN
            /\ ctx' = [ctx EXCEPT !.final_text = text]
            /\ hist' = [hist EXCEPT !.reached = @ \cup {"mid_done"},
                                    !.mid_text = text]
            /\ pc' = "post_mem_user"
            /\ out' = out
    /\ loop' = IF pc' = "error" THEN loop ELSE NoLoop
    /\ UNCHANGED enrich
    /\ UNCHANGED notChat

(***************************************************************************)
(* chat_completions_stream after _pre, server.py:608-627.                  *)
(***************************************************************************)
MaxDeltas == 2          \* deltas one stream relays

\* what router.chat_stream does next: yield a delta, end, or raise
StreamEvents == {"delta", "end", "raise"}

\* server.py:608-616, 626-627: the system messages, the tool schema, the
\* router; StreamingResponse(_gen()) is returned with status 200.
stream_tools(ok) ==
    /\ pc = "stream_tools"
    /\ IF ~ok
       THEN pc' = "error" /\ out' = Raised("stream", "tools_schema")
       ELSE pc' = "stream_gen" /\ out' = [out EXCEPT !.status = 200,
                                                     !.text = "stream"]
    /\ UNCHANGED <<ctx, enrich, loop, hist>>
    /\ UNCHANGED notChat

\* _gen, server.py:618-624: relay a delta as a JSON line; after the last one
\* send [DONE]; an exception of chat_stream ends the generator where it is.
stream_gen(event) ==
    /\ pc = "stream_gen"
    /\ event = "delta" => hist.deltas < MaxDeltas
    /\ CASE event = "delta" ->
              /\ hist' = [hist EXCEPT !.deltas = @ + 1]
              /\ UNCHANGED <<pc, out>>
         [] event = "end" ->
              /\ hist' = [hist EXCEPT !.closed = "DONE"]
              /\ pc' = "done"
              /\ out' = out
         [] event = "raise" ->
              /\ hist' = [hist EXCEPT !.closed = "broken"]
              /\ pc' = "error"
              /\ out' = [out EXCEPT !.raisedIn = "stream",
                                    !.cause = "provider"]
    /\ UNCHANGED <<ctx, enrich, loop>>
    /\ UNCHANGED notChat

(***************************************************************************)
(* _tool_call_loop(router, S, base_messages, tool_list, max_iters) called   *)
(* on its own: every max_iters up to the default, either router.            *)
(***************************************************************************)
InitLoop ==
    /\ pc = "mid_model"
    /\ \E remote \in BOOLEAN : ctx = [NoCtx EXCEPT !.needs_remote = remote]
    /\ \E has_tools \in BOOLEAN, n \in 0..max_iters :
          loop = [NoLoop EXCEPT !.messages = mid_messages(NoCtx),
                                !.tools = has_tools, !.max_iters = n]
    /\ enrich = NoEnrich
    /\ out = NoOut
    /\ hist = NoHist

NextLoop ==
    \/ \E ok \in BOOLEAN, content \in Contents, n \in 0..MaxToolCalls :
          mid_model(ok, content, n)
    \/ \E res \in ToolOutcomes, kind \in ArgKinds : mid_tool(res, kind)
    \/ mid_loop_end

(***************************************************************************)
(* _post, server.py:536-572, and the answer, server.py:584-598.            *)
(***************************************************************************)
\* _post, server.py:543-545: the user's message as a memory candidate.
post_mem_user(ok) ==
    /\ pc = "post_mem_user"
    /\ IF ~ok
       THEN /\ pc' = "error"
            /\ out' = Raised("post", "mem_candidates_user")
            /\ hist' = [hist EXCEPT !.reached = @ \cup {"post_started"},
                                    !.postFailed = @ \cup {"mem_user"}]
       ELSE /\ pc' = "post_mem_assistant"
            /\ out' = out
            /\ hist' = [hist EXCEPT !.reached = @ \cup {"post_started"}]
    /\ UNCHANGED <<ctx, enrich, loop>>
    /\ UNCHANGED notChat

\* _post, server.py:546-548: the answer as a memory candidate.
post_mem_assistant(ok) ==
    /\ pc = "post_mem_assistant"
    /\ IF ~ok
       THEN /\ pc' = "error"
            /\ out' = Raised("post", "mem_candidates_assistant")
            /\ hist' = [hist EXCEPT !.postFailed = @ \cup {"mem_assistant"}]
       ELSE /\ pc' = "post_validate"
            /\ out' = out
            /\ hist' = hist
    /\ UNCHANGED <<ctx, enrich, loop>>
    /\ UNCHANGED notChat

\* _post, server.py:550-563: validate; a text that is not ok is replaced by
\* the repaired one, if the answer has one; an exception is logged to
\* telemetry.
post_validate(ok, pol_ok, repaired, tel_ok) ==
    /\ pc = "post_validate"
    /\ IF ~ok /\ ~tel_ok
       THEN /\ pc' = "error"
            /\ out' = Raised("post", "policy_validation_error")
            /\ hist' = [hist EXCEPT !.postFailed = @ \cup {"validate", "telemetry"}]
            /\ ctx' = ctx
       ELSE /\ pc' = "post_telemetry"
            /\ out' = out
            /\ hist' = IF ok THEN hist
                       ELSE [hist EXCEPT !.postFailed = @ \cup {"validate"}]
            /\ ctx' = IF ok /\ ~pol_ok /\ repaired
                      THEN [ctx EXCEPT !.final_text = "repaired"] ELSE ctx
    /\ UNCHANGED <<enrich, loop>>
    /\ UNCHANGED notChat

\* _post, server.py:565-572, then chat_completions, server.py:585-598: the
\* chat_turn event (len() of a final_text that is None raises) and the answer.
post_telemetry(ok) ==
    /\ pc = "post_telemetry"
    /\ IF ctx.final_text = "None"
       THEN /\ pc' = "error"
            /\ out' = Raised("post", "len_of_None")
            /\ hist' = hist
       ELSE IF ~ok
       THEN /\ pc' = "error"
            /\ out' = Raised("post", "chat_turn")
            /\ hist' = [hist EXCEPT !.postFailed = @ \cup {"chat_turn"}]
       ELSE /\ pc' = "done"
            /\ out' = [out EXCEPT !.status = 200, !.text = ctx.final_text]
            /\ hist' = [hist EXCEPT !.reached = @ \cup {"post_done"}]
    /\ UNCHANGED <<ctx, enrich, loop>>
    /\ UNCHANGED notChat

NextChat ==
    \/ \E has_messages \in BOOLEAN : chat_completions(has_messages)
    \/ \E ok, remote, heuristic, tel_ok \in BOOLEAN, lane \in Lanes :
          pre_intent(ok, lane, remote, heuristic, tel_ok)
    \/ \E fast_ok, tel_ok, mm_ok, tel2_ok, has_obs \in BOOLEAN :
          pre_image(fast_ok, tel_ok, mm_ok, tel2_ok, has_obs)
    \/ \E audio_ref, mm_ok, tel_ok, has_obs \in BOOLEAN :
          pre_audio(audio_ref, mm_ok, tel_ok, has_obs)
    \/ \E ok, items, tel_ok \in BOOLEAN : _mem_retrieve(ok, items, tel_ok)
    \/ \E ok, tel_ok \in BOOLEAN : _mem_summary(ok, tel_ok)
    \/ \E ok, tel_ok \in BOOLEAN : _affect(ok, tel_ok)
    \/ \E ok, tel_ok \in BOOLEAN : _drive(ok, tel_ok)
    \/ \E ok, has_final, tel_ok \in BOOLEAN : pre_policy(ok, has_final, tel_ok)
    \/ \E ok, has_tools \in BOOLEAN : mid_tools(ok, has_tools)
    \/ \E ok \in BOOLEAN, content \in Contents, n \in 0..MaxToolCalls :
          mid_model(ok, content, n)
    \/ \E res \in ToolOutcomes, kind \in ArgKinds : mid_tool(res, kind)
    \/ mid_loop_end
    \/ \E ok \in BOOLEAN, merged \in MergerReplies : mid_merge(ok, merged)
    \/ \E ok \in BOOLEAN : post_mem_user(ok)
    \/ \E ok \in BOOLEAN : post_mem_assistant(ok)
    \/ \E ok, pol_ok, repaired, tel_ok \in BOOLEAN :
          post_validate(ok, pol_ok, repaired, tel_ok)
    \/ \E ok \in BOOLEAN : post_telemetry(ok)

\* one request to /v1/chat/completions/stream
NextStream ==
    \/ \E has_messages \in BOOLEAN : chat_completions_stream(has_messages)
    \/ \E ok, remote, heuristic, tel_ok \in BOOLEAN, lane \in Lanes :
          pre_intent(ok, lane, remote, heuristic, tel_ok)
    \/ \E fast_ok, tel_ok, mm_ok, tel2_ok, has_obs \in BOOLEAN :
          pre_image(fast_ok, tel_ok, mm_ok, tel2_ok, has_obs)
    \/ \E audio_ref, mm_ok, tel_ok, has_obs \in BOOLEAN :
          pre_audio(audio_ref, mm_ok, tel_ok, has_obs)
    \/ \E ok, items, tel_ok \in BOOLEAN : _mem_retrieve(ok, items, tel_ok)
    \/ \E ok, tel_ok \in BOOLEAN : _mem_summary(ok, tel_ok)
    \/ \E ok, tel_ok \in BOOLEAN : _affect(ok, tel_ok)
    \/ \E ok, tel_ok \in BOOLEAN : _drive(ok, tel_ok)
    \/ \E ok, has_final, tel_ok \in BOOLEAN : pre_policy(ok, has_final, tel_ok)
    \/ \E ok \in BOOLEAN : stream_tools(ok)
    \/ \E event \in StreamEvents : stream_gen(event)

(***************************************************************************)
(* Properties of the chat pipeline.                                        *)
(***************************************************************************)
Finished == pc \in {"done", "error"}

\* the telemetry events of the enrichment calls of _pre
EnrichmentEvents == {"intent_error", "memory_retrieve_error",
                     "memory_summary_error", "affect_error", "drive_error"}

\* C7: no failure of an enrichment call (intent router, memory retrieve,
\* memory summary, affect/tone, drive/policy) aborts the request in Pre,
\* whatever the other services do.
C7_EnrichmentNeverAborts ==
    ~(out.raisedIn = "pre" /\ out.cause \in EnrichmentEvents)

\* C8: every request that completed Pre has entered Post by the time it is
\* answered, also when Mid raised.
C8_PostAlwaysRuns ==
    (Finished /\ "pre_done" \in hist.reached) => "post_started" \in hist.reached

\* C9: a request in which a Post step failed (a memory candidate write, the
\* policy validation, the chat_turn event) is still answered 200 with the text
\* Mid produced.
C9_PostFailureSwallowed ==
    (Finished /\ hist.postFailed # {}) =>
        (out.status = 200 /\ out.text = hist.mid_text)

\* C10: a request fails on a provider error in Mid only after more than one
\* failed model call: one transient provider failure does not fail it.
C10_ProviderRetried ==
    (out.raisedIn = "mid" /\ out.cause = "provider") => hist.modelFailures > 1

(***************************************************************************)
(* Properties of _tool_call_loop.                                          *)
(***************************************************************************)
\* the loop returned (draft, messages) to its caller
LoopReturned == pc = "mid_merge"

\* an exception left the loop
LoopRaised == pc = "error"

\* the tool messages the loop appended
ToolMessages ==
    {i \in 1..Len(loop.messages) : loop.messages[i].role = "tool"}

\* C11: called with max_iters = 0 the loop returns the model's first response
\* as it came: one model call, no tool executed.
C11_ZeroItersFirstResponse ==
    (loop.max_iters = 0 /\ (LoopReturned \/ LoopRaised)) =>
        /\ LoopReturned
        /\ hist.modelCalls = 1
        /\ loop.draft # NoDraft /\ loop.draft = loop.reply
        /\ ToolMessages = {}

\* C12: the loop always ends; it calls the model at most max_iters times; a
\* response without tool_calls ends it at once; what it returns is the last
\* response of the model, one without tool_calls or the one of round
\* max_iters; it ends without returning only when a call raised or no round
\* was run.
C12_LoopTerminates ==
    /\ [](hist.modelCalls <= loop.max_iters)
    /\ [][(hist.modelCalls' = hist.modelCalls + 1 /\ ~LoopRaised'
             /\ loop'.reply.tool_calls = 0) => LoopReturned']_vars
    /\ [](LoopReturned =>
             /\ loop.draft # NoDraft /\ loop.draft = loop.reply
             /\ loop.draft.tool_calls = 0 \/ hist.modelCalls = loop.max_iters)
    /\ [](LoopRaised =>
             \/ out.cause \in {"provider", "tool_exec"}
             \/ loop.max_iters = 0)
    /\ <>(LoopReturned \/ LoopRaised)

\* the model asked for a tool in every one of max_iters rounds and the loop
\* returned its last response
C12_Witness ==
    /\ LoopReturned
    /\ loop.max_iters = max_iters
    /\ hist.modelCalls = max_iters
    /\ loop.draft.tool_calls > 0
    /\ Cardinality(ToolMessages) >= max_iters

\* C13: a failed tool execution never aborts the loop: no exception of a
\* tool call leaves _tool_call_loop; the failure is appended as a tool
\* message and the loop goes on.
C13_ToolFailureNeverAborts ==
    ~(LoopRaised /\ out.cause = "tool_exec")

\* C14: the arguments posted to the Tool Hub are the decoded object for a
\* valid JSON string, {} for a string that is no JSON, and the model's own
\* object when the arguments came already structured.
C14_ToolArguments ==
    loop.posted # NoPost =>
        loop.posted.arguments =
            CASE loop.posted.kind = "json_string" -> "parsed"
              [] loop.posted.kind = "bad_string" -> "{}"
              [] loop.posted.kind = "object" -> "object"

(***************************************************************************)
(* chat(messages, model_priority, ...), providers/openrouter.py:123-199.   *)
(***************************************************************************)
openrouter_MAX_RETRIES == 3     \* MAX_RETRIES of providers/openrouter.py
MaxLineup == 2                  \* entries of model_priority

RETRY_STATUSES == {402, 408, 409, 429, 500, 502, 503, 504}

MODEL_TOOLCALL == "deepseek/deepseek-chat"
MODEL_VISION == "zhipuai/glm-4v-9b"
MODEL_EXPLICIT == "venice/uncensored:free"
MODEL_CODER == "qwen/qwen-2.5-coder-32b-instruct"
DEFAULT_MODEL == MODEL_TOOLCALL

\* an entry of model_priority: a model name, or "" for an entry that is falsy
PriorityEntries == {MODEL_TOOLCALL, MODEL_VISION, ""}

SeqsUpTo(S, n) == UNION {[1..k -> S] : k \in 0..n}

\* the answer to requests.post: a status code, or 0 when requests.post or the
\* decoding of the answer raised
Responses == {0, 200, 204, 400, 503}
NoResp == -1

NoErr == [kind |-> "None", status |-> NoResp]

\* openrouter.py:149
make_lineup(mp) ==
    LET named == SelectSeq(mp, LAMBDA m : m # "") IN
    IF named = <<>> THEN <<DEFAULT_MODEL>> ELSE named

\* requests.Response.raise_for_status as openrouter.py:185 uses it
raise_for_status(status) == status >= 400 /\ status < 600

\* openrouter.py:165-191, one pass of the attempt loop: did chat() return,
\* and the last_err it holds afterwards
one_attempt_keeps_first_error(resp, err) ==
    IF resp = 200 THEN [returned |-> TRUE, last_err |-> err]
    ELSE IF err # NoErr THEN [returned |-> FALSE, last_err |-> err]
    ELSE IF resp = 0
    THEN [returned |-> FALSE, last_err |-> [kind |-> "exception", status |-> 0]]
    ELSE [returned |-> FALSE, last_err |-> [kind |-> "status", status |-> resp]]

one_attempt(resp, err) ==
    IF resp = 0
    THEN [returned |-> FALSE,
          last_err |-> [kind |-> "exception", status |-> 0]]
    ELSE IF resp = 200
    THEN [returned |-> TRUE, last_err |-> err]
    ELSE IF resp \in RETRY_STATUSES
    THEN [returned |-> FALSE,
          last_err |-> [kind |-> "status_text", status |-> resp]]
    ELSE IF raise_for_status(resp)
    THEN [returned |-> FALSE,
          last_err |-> [kind |-> "HTTPError", status |-> resp]]
    ELSE [returned |-> FALSE, last_err |-> err]

InitRemote ==
    /\ OPENROUTER_KEY \in BOOLEAN
    /\ model_priority \in SeqsUpTo(PriorityEntries, MaxLineup)
    /\ lineup = <<>>
    /\ model_idx = 0
    /\ attempt = 0
    /\ last_err = NoErr
    /\ chat_result = [state |-> "idle", detail |-> NoErr]
    /\ tried = <<>>
    /\ seen = NoResp
    /\ lastResp = NoResp

IdleRemote ==
    InitRemote /\ OPENROUTER_KEY = FALSE /\ model_priority = <<>>

\* openrouter.py:146-152: the key check and the lineup
chat_start ==
    /\ chat_result.state = "idle"
    /\ IF ~OPENROUTER_KEY
       THEN /\ chat_result' = [state |-> "raised",
                               detail |-> [kind |-> "not configured",
                                           status |-> NoResp]]
            /\ UNCHANGED <<lineup, model_idx>>
       ELSE /\ chat_result' = [chat_result EXCEPT !.state = "running"]
            /\ lineup' = make_lineup(model_priority)
            /\ model_idx' = 1
    /\ UNCHANGED <<OPENROUTER_KEY, model_priority, attempt, last_err, tried,
                   seen, lastResp>>
    /\ UNCHANGED notRemote

\* openrouter.py:164-199: one request and what follows it: return, the next
\* attempt, the next model, or RuntimeError with last_err once the lineup is
\* used up
chat_post(resp) ==
    /\ chat_result.state = "running"
    /\ LET o == one_attempt(resp, last_err) IN
         /\ last_err' = o.last_err
         /\ IF o.returned
            THEN /\ chat_result' = [state |-> "returned", detail |-> NoErr]
                 /\ UNCHANGED <<model_idx, attempt>>
            ELSE IF in_range(attempt + 1, openrouter_MAX_RETRIES)
            THEN /\ attempt' = attempt + 1
                 /\ UNCHANGED <<model_idx, chat_result>>
            ELSE IF model_idx < Len(lineup)
            THEN /\ model_idx' = model_idx + 1
                 /\ attempt' = 0
                 /\ UNCHANGED chat_result
            ELSE /\ chat_result' = [state |-> "raised", detail |-> o.last_err]
                 /\ UNCHANGED <<model_idx, attempt>>
    /\ tried' = Append(tried, lineup[model_idx])
    /\ lastResp' = resp
    /\ seen' = IF resp = 0 \/ resp >= 400 THEN resp ELSE seen
    /\ UNCHANGED <<OPENROUTER_KEY, model_priority, lineup>>
    /\ UNCHANGED notRemote

NextRemote ==
    \/ chat_start
    \/ \E resp \in Responses : chat_post(resp)

(***************************************************************************)
(* Properties of the remote chat call.                                     *)
(***************************************************************************)
\* each model of the lineup, openrouter_MAX_RETRIES times over
Expand(l) ==
    [k \in 1..(Len(l) * openrouter_MAX_RETRIES) |->
        l[((k - 1) \div openrouter_MAX_RETRIES) + 1]]

IsPrefix(a, b) == Len(a) <= Len(b) /\ SubSeq(b, 1, Len(a)) = a

\* a status that is neither 2xx nor one of RETRY_STATUSES
NonRetryable(status) ==
    /\ status > 0
    /\ status < 200 \/ status >= 300
    /\ status \notin RETRY_STATUSES

\* C15: an answer with a non-2xx status outside RETRY_STATUSES ends the call:
\* chat() raises that error and sends no further request.
C15_NonRetryableSurfaced ==
    NonRetryable(lastResp) =>
        /\ chat_result.state = "raised"
        /\ chat_result.detail = [kind |-> "HTTPError", status |-> lastResp]

\* C16: the requests go to the models in priority order, at most
\* openrouter_MAX_RETRIES to each entry of the list, to the next one only
\* after openrouter_MAX_RETRIES to the one before; chat() raises only when
\* every entry had them all, and the error it raises carries the last error a
\* request ended with.
C16_PriorityOrderAndExhaustion ==
    /\ chat_result.state # "idle" =>
          IsPrefix(tried, Expand(make_lineup(model_priority)))
    /\ (chat_result.state = "raised" /\ OPENROUTER_KEY) =>
          /\ tried = Expand(make_lineup(model_priority))
          /\ chat_result.detail.status = seen
    /\ chat_result.state = "returned" => lastResp = 200

\* two models, every request failed, the last one with an exception after
\* earlier answers with a status
C16_Witness ==
    /\ chat_result.state = "raised"
    /\ Len(lineup) = 2 /\ lineup[1] # lineup[2]
    /\ Len(tried) = 2 * openrouter_MAX_RETRIES
    /\ chat_result.detail.kind = "exception"
    /\ last_err.kind = "exception"

(***************************************************************************)
(* RouterPolicy, router/policy.py:40-169.                                  *)
(***************************************************************************)
MaxMessages == 2                \* messages of one request

LOCAL_MODEL == "q4_7b.gguf"

\* msg.get("content"): a string (named after the patterns it matches, ""
\* is the empty string), None, or a list of parts: one with an item of type
\* image_url, one with text items only, the empty list
TextContents == {"plain", "vision_text", "explicit_text", "coding_text",
                 "tool_text", ""}
ListContents == {"list_image", "list_text", "list_empty"}
MessageContents == TextContents \cup ListContents \cup {"None"}

\* force_model: None (local FALSE, name ""), "local/<name>" or a model name
ForceModels == {[local |-> FALSE, name |-> ""],
                [local |-> TRUE, name |-> LOCAL_MODEL],
                [local |-> FALSE, name |-> MODEL_CODER]}

NoAnalysis == [raises |-> "none", explicit |-> FALSE, vision |-> FALSE,
               coding |-> FALSE, tools |-> FALSE]

\* policy.py:55-72: the contents that are truthy are lower-cased and joined;
\* a list has no lower()
_analyze_content(messages) ==
    LET contents == {messages[k] : k \in 1..Len(messages)} IN
    IF contents \cap {"list_image", "list_text"} # {}
    THEN [NoAnalysis EXCEPT !.raises = "AttributeError"]
    ELSE [raises |-> "none",
          explicit |-> "explicit_text" \in contents,
          vision |-> "vision_text" \in contents,
          coding |-> "coding_text" \in contents,
          tools |-> "tool_text" \in contents]

\* policy.py:74-82
_has_images(messages) ==
    \E k \in 1..Len(messages) : messages[k] = "list_image"

Route(provider, model) ==
    [provider |-> provider, model |-> model, raises |-> "none"]

RouteRaises(exc) == [provider |-> "unbound", model |-> "unbound", raises |-> exc]

\* policy.py:84-138
route_request(messages, tools, force_model, or_available, loc_available) ==
    IF force_model.name # ""
    THEN IF force_model.local
         THEN Route("local_fallback", force_model.name)
         ELSE Route("openrouter", force_model.name)
    ELSE IF ~or_available
    THEN IF loc_available
         THEN Route("local_fallback", LOCAL_MODEL)
         ELSE RouteRaises("RuntimeError")
    ELSE LET content_analysis == _analyze_content(messages) IN
         IF content_analysis.raises # "none"
         THEN RouteRaises(content_analysis.raises)
         ELSE IF _has_images(messages) \/ content_analysis.vision
         THEN Route("openrouter", MODEL_VISION)
         ELSE IF content_analysis.explicit
         THEN Route("openrouter", MODEL_EXPLICIT)
         ELSE IF content_analysis.coding
         THEN Route("openrouter", MODEL_CODER)
         ELSE Route("openrouter", MODEL_TOOLCALL)

NoFallback == [provider |-> "None", model |-> "None"]

\* policy.py:140-169
get_fallback_strategy_any_primary(primary_provider, loc_available) ==
    IF loc_available
    THEN [provider |-> "local_fallback", model |-> LOCAL_MODEL]
    ELSE NoFallback

get_fallback_strategy(primary_provider, loc_available) ==
    IF primary_provider = "openrouter" /\ loc_available
    THEN [provider |-> "local_fallback", model |-> LOCAL_MODEL]
    ELSE NoFallback

NoRoute == [messages |-> <<>>, tools |-> FALSE,
            force_model |-> [local |-> FALSE, name |-> ""],
            result |-> RouteRaises("not called")]

NoRequest == [messages |-> <<>>, tools |-> FALSE,
              model |-> [local |-> FALSE, name |-> ""]]

\* chat_completions' locals: provider and model are unbound until
\* route_request returned
NoGw == [pc |-> "idle", provider |-> "unbound", model |-> "unbound",
         error |-> "none", calls |-> <<>>, status |-> 0, body |-> "none",
         answer |-> NoFallback]

\* RouterPolicy.__init__, policy.py:43-45: the two health checks
InitPolicy ==
    /\ openrouter_available \in BOOLEAN
    /\ local_available \in BOOLEAN
    /\ routed = NoRoute
    /\ request = NoRequest
    /\ gw = NoGw

IdleGateway ==
    InitPolicy /\ openrouter_available = FALSE /\ local_available = FALSE

\* a call of policy.route_request(messages, tools, force_model)
route_call(messages, tools, force_model) ==
    /\ routed' = [messages |-> messages, tools |-> tools,
                  force_model |-> force_model,
                  result |-> route_request(messages, tools, force_model,
                               openrouter_available, local_available)]
    /\ UNCHANGED <<openrouter_available, local_available, request, gw>>
    /\ UNCHANGED notGateway

\* refresh_policy, policy.py:199-203: a new RouterPolicy, the health checks
\* run again
refresh_policy(or_healthy, loc_healthy) ==
    /\ openrouter_available' = or_healthy
    /\ local_available' = loc_healthy
    /\ routed' = NoRoute
    /\ UNCHANGED <<request, gw>>
    /\ UNCHANGED notGateway

NextPolicy ==
    \/ \E messages \in SeqsUpTo(MessageContents, MaxMessages),
          tools \in BOOLEAN, force_model \in ForceModels :
          route_call(messages, tools, force_model)
    \/ \E or_healthy, loc_healthy \in BOOLEAN :
          refresh_policy(or_healthy, loc_healthy)

(***************************************************************************)
(* chat_completions, api/openrouter_gateway.py:48-159.                     *)
(***************************************************************************)
\* what a provider call gives: a text, a text that contains the word
\* tool_calls, or an exception (openrouter.chat and local_fallback.chat raise
\* RuntimeError)
ProviderOutcomes == {"text", "text_tool_calls", "raise"}

\* ChatRequest, openrouter_gateway.py:23-35: content is a str; a request with
\* another content is answered 422 by the framework and the handler is not
\* run
gw_receive(messages, tools, model) ==
    /\ gw.pc = "idle"
    /\ request' = [messages |-> messages, tools |-> tools, model |-> model]
    /\ IF \A k \in 1..Len(messages) : messages[k] \in TextContents
       THEN gw' = [gw EXCEPT !.pc = "route"]
       ELSE gw' = [gw EXCEPT !.pc = "done", !.status = 422,
                             !.body = "validation"]
    /\ UNCHANGED <<openrouter_available, local_available, routed>>
    /\ UNCHANGED notGateway

\* openrouter_gateway.py:60-67, 119-124: route_request; when it raises, the
\* except clause reads provider, which is unbound: UnboundLocalError leaves
\* the handler and the framework answers 500
gw_route ==
    /\ gw.pc = "route"
    /\ LET res == route_request(request.messages, request.tools,
                     request.model, openrouter_available, local_available)
       IN IF res.raises # "none"
          THEN gw' = [gw EXCEPT !.pc = "done", !.error = "no_provider",
                                !.status = 500,
                                !.body = "Internal Server Error"]
          ELSE gw' = [gw EXCEPT !.pc = "primary", !.provider = res.provider,
                                !.model = res.model]
    /\ UNCHANGED <<openrouter_available, local_available, routed, request>>
    /\ UNCHANGED notGateway

\* openrouter_gateway.py:72-117, 119-126, 159: the call of the routed
\* provider.  With tools in the request, `"tool_calls" in content` is a
\* substring test and content.get raises AttributeError.  On an exception
\* get_fallback_strategy decides; without a fallback HTTPException(500).
gw_primary(outcome) ==
    /\ gw.pc = "primary"
    /\ LET failed == \/ outcome = "raise"
                     \/ outcome = "text_tool_calls" /\ request.tools
           fallback == get_fallback_strategy(gw.provider, local_available)
       IN IF ~failed
          THEN gw' = [gw EXCEPT !.pc = "done", !.status = 200,
                        !.body = "ChatResponse",
                        !.calls = Append(@, gw.provider),
                        !.answer = [provider |-> gw.provider,
                                    model |-> gw.model]]
          ELSE IF fallback # NoFallback
          THEN gw' = [gw EXCEPT !.pc = "fallback", !.error = "primary_failed",
                        !.calls = Append(@, gw.provider),
                        !.answer = fallback]
          ELSE gw' = [gw EXCEPT !.pc = "done", !.error = "all_failed",
                        !.status = 500, !.body = "detail",
                        !.calls = Append(@, gw.provider)]
    /\ UNCHANGED <<openrouter_available, local_available, routed, request>>
    /\ UNCHANGED notGateway

\* openrouter_gateway.py:126-159: the fallback call; when it raises too,
\* HTTPException(500, "All providers failed: ...")
gw_fallback(outcome) ==
    /\ gw.pc = "fallback"
    /\ IF outcome # "raise"
       THEN gw' = [gw EXCEPT !.pc = "done", !.status = 200,
                     !.body = "ChatResponse",
                     !.calls = Append(@, gw.answer.provider)]
       ELSE gw' = [gw EXCEPT !.pc = "done", !.error = "all_failed",
                     !.status = 500, !.body = "detail",
                     !.calls = Append(@, gw.answer.provider),
                     !.answer = NoFallback]
    /\ UNCHANGED <<openrouter_available, local_available, routed, request>>
    /\ UNCHANGED notGateway

NextGateway ==
    \/ \E messages \in SeqsUpTo(MessageContents, MaxMessages),
          tools \in BOOLEAN, model \in ForceModels :
          gw_receive(messages, tools, model)
    \/ gw_route
    \/ \E outcome \in ProviderOutcomes : gw_primary(outcome)
    \/ \E outcome \in ProviderOutcomes : gw_fallback(outcome)

(***************************************************************************)
(* Properties of the routing policy and of the gateway.                    *)
(***************************************************************************)
\* the primary provider's call failed
PrimaryFailed == gw.error \in {"primary_failed", "all_failed"}

\* C17: after a failed primary call the request is retried on the local
\* provider exactly when the primary was the remote provider and local is
\* available; a failed local primary, or no local provider, means no second
\* call.
C17_FallbackPolicy ==
    /\ (gw.pc = "done" /\ PrimaryFailed) =>
          IF gw.calls[1] = "openrouter" /\ local_available
          THEN gw.calls = <<"openrouter", "local_fallback">>
          ELSE Len(gw.calls) = 1
    /\ (gw.pc = "done" /\ ~PrimaryFailed) => Len(gw.calls) <= 1
    /\ gw.pc = "fallback" =>
          gw.calls = <<"openrouter">> /\ local_available

\* the remote call failed, local is available and answered
C17_Witness ==
    /\ gw.pc = "done"
    /\ gw.calls = <<"openrouter", "local_fallback">>
    /\ gw.status = 200
    /\ gw.answer = [provider |-> "local_fallback", model |-> LOCAL_MODEL]

\* C18: when every provider is exhausted (routing found none, or the primary
\* and any fallback failed) the endpoint answers 502 with a structured
\* error.
C18_Exhausted502 ==
    (gw.pc = "done" /\ gw.error \in {"no_provider", "all_failed"}) =>
        (gw.status = 502 /\ gw.body = "detail")

\* C19: with the remote provider available and no force_model, route_request
\* returns the vision model whenever some message's content is a list with an
\* item of type image_url.
C19_ImagePartsRouteToVision ==
    (/\ routed # NoRoute
     /\ openrouter_available
     /\ routed.force_model.name = ""
     /\ \E k \in 1..Len(routed.messages) : routed.messages[k] = "list_image")
    => routed.result = Route("openrouter", MODEL_VISION)

(***************************************************************************)
(* Properties of the request check of the chat endpoints.                  *)
(***************************************************************************)
\* C20: a chat completion request, sync or streaming, without messages (the
\* list missing or empty) is answered 400 and runs no stage of the pipeline.
C20_NoMessages400 ==
    hist.messages = "missing" => (out.status = 400 /\ hist.reached = {})

(***************************************************************************)
(* Properties of _mid and of the streaming answer.                         *)
(***************************************************************************)
\* C21: a failure of the tool schema fetch (S["tools"].get("/tools")) never
\* fails the request: the request goes on with an empty tool list.
C21_ToolSchemaFailureContinues == out.cause # "tools_schema"

\* C22: the step that ends Mid sets final_text to the merger's output when
\* that output is not empty, and to the draft text of the tool loop otherwise.
C22_MergerReplacesIffNonEmpty ==
    [][(pc = "mid_merge" /\ pc' = "post_mem_user") =>
          (ctx'.final_text \in {"merged", "final"}
           \/ ctx'.final_text = loop.draft.content)]_vars

\* the positions of the system messages of a message sequence
SystemPositions(messages) ==
    {k \in 1..Len(messages) : messages[k].role = "system"}

\* C23: in the messages sent to the model the policy's system_final, when
\* there is one, is the first message, ahead of the base system prompt and of
\* every addendum, and no system message comes after a message of the request.
C23_SystemFinalFirst ==
    LET messages == loop.messages IN
    /\ (\E k \in 1..Len(messages) : messages[k].content.kind = "system_final")
          => messages[1].content.kind = "system_final"
    /\ \A k \in SystemPositions(messages) :
          \A j \in 1..k : messages[j].role = "system"

\* the steps of _mid and of _post
MidSteps == {"mid_tools", "mid_model", "mid_tool", "mid_merge"}
PostSteps == {"post_mem_user", "post_mem_assistant", "post_validate",
              "post_telemetry"}

\* C24: within one request no call of Mid (tool schema, model, tool, merger)
\* is made before every call of Pre has completed, the four coroutines of the
\* gather included, and no call of Post is made before Mid has completed.
C24_StagesInOrder ==
    /\ [](pc \in MidSteps =>
             /\ "pre_done" \in hist.reached
             /\ hist.reached \cap {"mid_done", "post_started"} = {})
    /\ [](pc \in PostSteps => {"pre_done", "mid_done"} \subseteq hist.reached)
    /\ [](hist.modelCalls > 0 => "pre_done" \in hist.reached)
    /\ [][(pc \notin MidSteps /\ pc' \in MidSteps) =>
             /\ pc = "pre_gather"
             /\ \A b \in DOMAIN enrich :
                   enrich[b] \in {"items", "no_items", "reply", "default"}]_vars
    /\ [][(pc \notin PostSteps /\ pc' \in PostSteps) =>
             (pc = "mid_merge" /\ loop.pending = 0)]_vars

\* a request answered after Pre, Mid with a model call, and Post
C24_Witness ==
    /\ pc = "done"
    /\ out.status = 200
    /\ hist.reached = {"pre_done", "mid_done", "post_started", "post_done"}
    /\ hist.modelCalls > 0

\* C25: a streaming request whose stream has closed has run Post (the memory
\* candidates of the accumulated text, the validation, the chat_turn event).
C25_PostAfterStreamClosure ==
    (hist.endpoint = "stream" /\ pc = "done" /\ hist.closed = "DONE") =>
        "post_started" \in hist.reached

\* C26: a stream that fails after some deltas were relayed ends with an error
\* chunk sent to the client.
C26_MidStreamErrorChunk ==
    (hist.endpoint = "stream" /\ out.cause = "provider" /\ hist.deltas > 0) =>
        hist.closed = "error_chunk"

(***************************************************************************)
(* The drive-state service, src/05-drive-state/src: drive_state.py and the *)
(* handlers of app.py.  A drive value is kept in hundredths (50 is 0.5).   *)
(* time.time() - state.timestamp is an input of the decay, the draws of    *)
(* random.uniform are an input of the random walk; the timestamp itself is *)
(* not kept.  The handlers are coroutines of one event loop: a handler     *)
(* that has started runs until it gives the loop up.                       *)
(***************************************************************************)
DriveOne == 100             \* 1.0, the upper end of a drive
baseline == 50              \* 0.5
random_walk_step == 2       \* 0.02

MaxCalls == 2               \* requests the service receives

Drives == {"energy", "sociability", "curiosity", "empathy_reserve",
           "novelty_seek"}
DriveUsers == {"u1"}
Slots == {"a", "b"}         \* the clients, each with one request at a time
DriveOps == {"get", "update", "policy"}

\* no state, no answer, no deltas
Nothing == [d \in {} |-> 0]

\* DriveState(user_id=user_id, ...), drive_state.py:14-23: the defaults
DriveState == [d \in Drives |-> baseline]

\* DriveState.clamp_values without the lower bound
clamp_values_upper_only(state) ==
    [d \in Drives |-> Min(DriveOne, state[d])]

\* DriveState.clamp_values, drive_state.py:34-40
clamp_values(state) ==
    [d \in Drives |-> Max(0, Min(DriveOne, state[d]))]

\* seconds since the last update: none, some, more than the decay needs
Elapsed == {0, 50, 5000}

\* min(1.0, time_diff * self.baseline_decay_rate * 10), drive_state.py:118,
\* in hundredths: 0.001 * 10 is a hundredth per second
decay_factor(time_diff) == Min(DriveOne, time_diff)

\* DriveStateManager._apply_time_decay, drive_state.py:111-126
_apply_time_decay(state, time_diff) ==
    IF time_diff > 0
    THEN [d \in Drives |->
            state[d] + ((baseline - state[d]) * decay_factor(time_diff))
                          \div DriveOne]
    ELSE state

\* the five draws of random.uniform(-step, step) of one random walk
WalkSteps ==
    {[d \in Drives |-> -random_walk_step],
     [d \in Drives |-> random_walk_step],
     [d \in Drives |-> IF d \in {"energy", "curiosity"}
                       THEN random_walk_step ELSE 0]}

\* DriveStateManager._apply_random_walk, drive_state.py:128-138
_apply_random_walk(state, steps) ==
    clamp_values([d \in Drives |-> state[d] + steps[d]])

\* UpdateRequest.delta: the deltas of test_api.py:50 and :62, and one with a
\* key that is no drive
DeltaSets ==
    {[d \in {"energy", "sociability"} |-> IF d = "energy" THEN 20 ELSE -10],
     [d \in {"energy", "curiosity"} |-> IF d = "energy" THEN 200 ELSE -200],
     [d \in {"focus"} |-> 10]}

\* update_drive_state, drive_state.py:92-102: the deltas are added
apply_deltas(state, deltas) ==
    [d \in Drives |-> IF d \in DOMAIN deltas THEN state[d] + deltas[d]
                      ELSE state[d]]

\* DriveStateManager._categorize_drive, drive_state.py:155-166
_categorize_drive(value) ==
    IF value < 25 THEN "very_low"
    ELSE IF value < 40 THEN "low"
    ELSE IF value < 60 THEN "moderate"
    ELSE IF value < 75 THEN "high"
    ELSE "very_high"

\* get_style_policy, drive_state.py:144-150: the five levels
style_policy(state) == [d \in Drives |-> _categorize_drive(state[d])]

\* a handler gives the event loop up after every step
yields_at_every_step(step) == TRUE

\* the handlers of app.py (69-106) are `async def` and await nothing: the
\* event loop gets back control only when the handler returns
yields(step) == step = "return"

\* a request: base, time_diff and steps are history (the state the handler
\* loaded, the elapsed time and the draws it met), read only by properties
\* and kept while the handler runs
NoCall == [op |-> "none", user_id |-> "none", deltas |-> Nothing,
           at |-> "idle", base |-> Nothing, time_diff |-> 0,
           steps |-> Nothing, status |-> 0, response |-> Nothing,
           policy |-> Nothing]

InitDrive ==
    /\ states = [u \in {} |-> Nothing]
    /\ storage_file = [u \in {} |-> Nothing]
    /\ reqs = [s \in Slots |-> NoCall]
    /\ running = "none"
    /\ calls = 0

IdleDrive == InitDrive

\* the handler of request s may take a step; afterwards it keeps the loop
\* unless the step gives it up
on_loop(s) == running \in {"none", s}
after(s, step) == IF yields(step) THEN "none" ELSE s

\* the request once its handler has returned
Answered(call, status, response, policy) ==
    [NoCall EXCEPT !.op = call.op, !.user_id = call.user_id,
                   !.at = "returned", !.status = status,
                   !.response = response, !.policy = policy]

\* a client sends GET /drive/get, POST /drive/update or POST /drive/policy;
\* FastAPI reads the query and the body, app.py:69-70, 79-81, 99-100
drive_request(s, op, user_id, deltas) ==
    /\ reqs[s].at \in {"idle", "returned"}
    /\ calls < MaxCalls
    /\ reqs' = [reqs EXCEPT ![s] =
                  [NoCall EXCEPT !.op = op, !.user_id = user_id,
                     !.deltas = IF op = "update" THEN deltas ELSE Nothing,
                     !.at = IF op = "update" THEN "validate" ELSE "load"]]
    /\ calls' = calls + 1
    /\ UNCHANGED <<states, storage_file, running>>
    /\ UNCHANGED notDrive

\* update_drive_state, app.py:85-89: a key that is no drive is answered 400
update_validate(s) ==
    /\ reqs[s].at = "validate"
    /\ on_loop(s)
    /\ IF DOMAIN reqs[s].deltas \subseteq Drives
       THEN /\ reqs' = [reqs EXCEPT ![s].at = "load"]
            /\ running' = after(s, "validate")
       ELSE /\ reqs' = [reqs EXCEPT
                          ![s] = Answered(@, 400, Nothing, Nothing)]
            /\ running' = after(s, "return")
    /\ UNCHANGED <<states, storage_file, calls>>
    /\ UNCHANGED notDrive

\* get_drive_state, drive_state.py:73-76: the user's state, created with the
\* defaults when there is none
get_load(s) ==
    /\ reqs[s].at = "load"
    /\ on_loop(s)
    /\ LET u == reqs[s].user_id IN
       /\ states' = IF u \in DOMAIN states THEN states
                    ELSE [v \in DOMAIN states \cup {u} |->
                            IF v = u THEN DriveState ELSE states[v]]
       /\ reqs' = [reqs EXCEPT ![s].at = "decay", ![s].base = states'[u]]
    /\ running' = after(s, "load")
    /\ UNCHANGED <<storage_file, calls>>
    /\ UNCHANGED notDrive

\* get_drive_state, drive_state.py:79
get_decay(s, time_diff) ==
    /\ reqs[s].at = "decay"
    /\ on_loop(s)
    /\ LET u == reqs[s].user_id IN
       states' = [states EXCEPT ![u] = _apply_time_decay(@, time_diff)]
    /\ reqs' = [reqs EXCEPT ![s].at = "walk", ![s].time_diff = time_diff]
    /\ running' = after(s, "decay")
    /\ UNCHANGED <<storage_file, calls>>
    /\ UNCHANGED notDrive

\* get_drive_state, drive_state.py:80
get_walk(s, steps) ==
    /\ reqs[s].at = "walk"
    /\ on_loop(s)
    /\ LET u == reqs[s].user_id IN
       states' = [states EXCEPT ![u] = _apply_random_walk(@, steps)]
    /\ reqs' = [reqs EXCEPT ![s].at = "save", ![s].steps = steps]
    /\ running' = after(s, "walk")
    /\ UNCHANGED <<storage_file, calls>>
    /\ UNCHANGED notDrive

\* get_drive_state, drive_state.py:82-85: save_states() writes every state
\* to the file and the state is returned: to the handler of /drive/get
\* (app.py:73-74), to get_style_policy (drive_state.py:142-153, app.py:
\* 103-104), or to update_drive_state (drive_state.py:90)
get_save(s) ==
    /\ reqs[s].at = "save"
    /\ on_loop(s)
    /\ storage_file' = states
    /\ LET state == states[reqs[s].user_id] IN
       CASE reqs[s].op = "get" ->
              /\ reqs' = [reqs EXCEPT
                            ![s] = Answered(@, 200, state, Nothing)]
              /\ running' = after(s, "return")
         [] reqs[s].op = "policy" ->
              /\ reqs' = [reqs EXCEPT
                            ![s] = Answered(@, 200, Nothing,
                                            style_policy(state))]
              /\ running' = after(s, "return")
         [] reqs[s].op = "update" ->
              /\ reqs' = [reqs EXCEPT ![s].at = "deltas"]
              /\ running' = after(s, "save")
    /\ UNCHANGED <<states, calls>>
    /\ UNCHANGED notDrive

\* update_drive_state, drive_state.py:92-102
update_deltas(s) ==
    /\ reqs[s].at = "deltas"
    /\ on_loop(s)
    /\ LET u == reqs[s].user_id IN
       states' = [states EXCEPT ![u] = apply_deltas(@, reqs[s].deltas)]
    /\ reqs' = [reqs EXCEPT ![s].at = "clamp"]
    /\ running' = after(s, "deltas")
    /\ UNCHANGED <<storage_file, calls>>
    /\ UNCHANGED notDrive

\* update_drive_state, drive_state.py:105-106
update_clamp(s) ==
    /\ reqs[s].at = "clamp"
    /\ on_loop(s)
    /\ LET u == reqs[s].user_id IN
       states' = [states EXCEPT ![u] = clamp_values(@)]
    /\ reqs' = [reqs EXCEPT ![s].at = "persist"]
    /\ running' = after(s, "clamp")
    /\ UNCHANGED <<storage_file, calls>>
    /\ UNCHANGED notDrive

\* update_drive_state, drive_state.py:108-109, and app.py:91-92: the states
\* are saved and the state is the answer
update_save(s) ==
    /\ reqs[s].at = "persist"
    /\ on_loop(s)
    /\ storage_file' = states
    /\ reqs' = [reqs EXCEPT
                  ![s] = Answered(@, 200, states[reqs[s].user_id], Nothing)]
    /\ running' = after(s, "return")
    /\ UNCHANGED <<states, calls>>
    /\ UNCHANGED notDrive

NextDrive ==
    \/ \E s \in Slots, op \in DriveOps, user_id \in DriveUsers,
          deltas \in DeltaSets : drive_request(s, op, user_id, deltas)
    \/ \E s \in Slots : update_validate(s)
    \/ \E s \in Slots : get_load(s)
    \/ \E s \in Slots, time_diff \in Elapsed : get_decay(s, time_diff)
    \/ \E s \in Slots, steps \in WalkSteps : get_walk(s, steps)
    \/ \E s \in Slots : get_save(s)
    \/ \E s \in Slots : update_deltas(s)
    \/ \E s \in Slots : update_clamp(s)
    \/ \E s \in Slots : update_save(s)

(***************************************************************************)
(* Properties of the drive-state service.                                  *)
(***************************************************************************)
InUnit(state) == \A d \in DOMAIN state : 0 <= state[d] /\ state[d] <= DriveOne

\* C27: whatever the deltas and the elapsed time, each of the five drives of
\* a state the service returned (get, update) or wrote to its file (get,
\* update, policy) lies in [0, 1].
C27_DrivesInUnitInterval ==
    /\ \A u \in DOMAIN storage_file :
          DOMAIN storage_file[u] = Drives /\ InUnit(storage_file[u])
    /\ \A s \in Slots :
          reqs[s].status = 200 /\ reqs[s].op # "policy" =>
             DOMAIN reqs[s].response = Drives /\ InUnit(reqs[s].response)

\* an update with deltas far beyond the interval has been answered: the
\* raised drive is 1.0, the lowered one 0.0
C27_Witness ==
    \E s \in Slots :
        /\ reqs[s].op = "update" /\ reqs[s].status = 200
        /\ reqs[s].response["energy"] = DriveOne
        /\ reqs[s].response["curiosity"] = 0
        /\ storage_file[reqs[s].user_id] = reqs[s].response

\* the steps between the load of the state and the answer
InCycle == {"decay", "walk", "save", "deltas", "clamp", "persist"}

\* what a request must leave behind, from the state it loaded and its inputs
Outcome(call) ==
    LET read == _apply_random_walk(_apply_time_decay(call.base,
                                                     call.time_diff),
                                   call.steps)
    IN IF call.op = "update" THEN clamp_values(apply_deltas(read, call.deltas))
       ELSE read

\* C28: for one user, load, decay, random walk, deltas, clamp and save of a
\* request run without a step of another request in between: at most one
\* request is inside its cycle, and when it answers, the state in memory and
\* in the file is the one it loaded with its own decay, walk and deltas
\* applied, so no delta is lost and no older state is written over a newer.
C28_CycleAtomic ==
    /\ [](\A s, t \in Slots :
            (reqs[s].at \in InCycle /\ reqs[t].at \in InCycle
             /\ reqs[s].user_id = reqs[t].user_id) => s = t)
    /\ [][\A s \in Slots :
            (reqs[s].at \in InCycle /\ reqs'[s].at = "returned") =>
               /\ states'[reqs[s].user_id] = Outcome(reqs[s])
               /\ storage_file'[reqs[s].user_id] = Outcome(reqs[s])
               /\ reqs'[s].response \in {Outcome(reqs[s]), Nothing}]_vars

\* an update is inside its cycle, its deltas applied and not yet clamped,
\* while another request for the same user waits for the event loop
C28_Witness ==
    \E s, t \in Slots :
        /\ s # t
        /\ reqs[s].op = "update" /\ reqs[s].at = "clamp"
        /\ reqs[t].at \in {"validate", "load"}
        /\ reqs[t].user_id = reqs[s].user_id

(***************************************************************************)
(* The memory service, src/02-memory-2.0/src/app.py: POST /mem/candidates. *)
(* A confidence is kept in hundredths (70 is 0.7).  A content is known by  *)
(* what the handler reads of it: whether it holds PII, the length of the   *)
(* stripped text after the PII filter, and the values each pattern of      *)
(* extract_traits finds in it.                                             *)
(***************************************************************************)
MaxCandidates == 3          \* candidates the service receives
MaxMemNow == 1              \* seconds the service's clock may advance

MemUsers == {"u1", "u2"}

\* a trait pattern with one key under two confidences
trait_patterns_two_confidences ==
    <<[key |-> "personality", confidence |-> 70],
      [key |-> "preference", confidence |-> 60],
      [key |-> "occupation", confidence |-> 80],
      [key |-> "location", confidence |-> 80],
      [key |-> "personality", confidence |-> 90],
      [key |-> "dislike", confidence |-> 60]>>

\* extract_traits, app.py:128-135: the key and the confidence of each pattern
trait_patterns ==
    <<[key |-> "personality", confidence |-> 70],
      [key |-> "preference", confidence |-> 60],
      [key |-> "occupation", confidence |-> 80],
      [key |-> "location", confidence |-> 80],
      [key |-> "name", confidence |-> 90],
      [key |-> "dislike", confidence |-> 60]>>

\* the matches of the six patterns in a content that has none
NoMatches == [k \in 1..6 |-> <<>>]

\* candidate contents: len is len(content.strip()) of the filtered text
MemContents ==
    {[id |-> "happy", pii |-> FALSE, len |-> 19,
      matches |-> [NoMatches EXCEPT ![1] = <<"happy">>]],
     [id |-> "twenty", pii |-> FALSE, len |-> 20, matches |-> NoMatches],
     [id |-> "ann", pii |-> FALSE, len |-> 21,
      matches |-> [NoMatches EXCEPT ![5] = <<"Ann">>]],
     [id |-> "engineer", pii |-> FALSE, len |-> 46,
      matches |-> [NoMatches EXCEPT ![1] = <<"a">>,
                                    ![3] = <<"a software engineer">>,
                                    ![4] = <<"Berlin">>]],
     [id |-> "moods", pii |-> TRUE, len |-> 40,
      matches |-> [NoMatches EXCEPT ![1] = <<"sad", "tired">>,
                                    ![2] = <<"tea">>]]}

\* the bodies of POST /mem/candidates: {user_id, content} as MemoryCandidate
\* (app.py:86-89) declares it, with a confidence the model ignores, or the
\* gateway's {user_id, text, tags, confidence} (server.py:543-548)
BodyShapes == {[field |-> "content", confidence |-> 70],
               [field |-> "content", confidence |-> 60],
               [field |-> "text", confidence |-> 60]}

CandidateBody(user_id, content, shape) ==
    [user_id |-> user_id, field |-> shape.field, content |-> content,
     confidence |-> shape.confidence]

\* extract_traits, app.py:137-146: the matches of pattern k and of the
\* patterns after it, in the order the loops find them
RECURSIVE traits_from(_, _)
traits_from(content, k) ==
    IF k > Len(trait_patterns) THEN <<>>
    ELSE [j \in 1..Len(content.matches[k]) |->
            [key |-> trait_patterns[k].key,
             value |-> content.matches[k][j],
             confidence |-> trait_patterns[k].confidence]]
         \o traits_from(content, k + 1)

extract_traits(content) == traits_from(content, 1)

\* store_trait, app.py:179-190: INSERT OR REPLACE on the key (user_id, key)
store_trait(table, user_id, key, value, confidence) ==
    [row \in DOMAIN table \cup {<<user_id, key>>} |->
        IF row = <<user_id, key>>
        THEN [value |-> value, confidence |-> confidence]
        ELSE table[row]]

\* store_memory_candidate, app.py:345-348: the traits of confidence >= 0.7
\* are stored one after the other
RECURSIVE store_traits(_, _, _)
store_traits(table, user_id, found) ==
    IF found = <<>> THEN table
    ELSE LET trait == Head(found) IN
         store_traits(IF trait.confidence >= 70
                      THEN store_trait(table, user_id, trait.key, trait.value,
                                       trait.confidence)
                      ELSE table,
                      user_id, Tail(found))

\* generate_episode_id, app.py:172-176: user, second and hash of the content
generate_episode_id(user_id, content, t) == <<user_id, t, content.id>>

episode_confidence == 80    \* app.py:354

NoCandidate == [body |-> CandidateBody("none", [id |-> "none"],
                                       [field |-> "none", confidence |-> 0]),
                status |-> 0, episode_created |-> FALSE,
                traits_extracted |-> 0, prev |-> <<>>]

InitMemory ==
    /\ traits = <<>>
    /\ episodes = {}
    /\ mem_now = 0
    /\ candidates = 0
    /\ lastCandidate = NoCandidate

IdleMemory == InitMemory

\* store_memory_candidate, app.py:328-371.  A body without "content" is
\* refused by the validation (422).  The traits are committed one by one;
\* the episode is inserted when the stripped content has more than 20
\* characters; an id that is in the table already makes the INSERT raise,
\* which is answered 500.
store_memory_candidate(body) ==
    /\ candidates < MaxCandidates
    /\ candidates' = candidates + 1
    /\ IF body.field # "content"
       THEN /\ lastCandidate' = [NoCandidate EXCEPT !.body = body,
                                    !.status = 422, !.prev = traits]
            /\ UNCHANGED <<traits, episodes>>
       ELSE LET content == body.content
                user_id == body.user_id
                found == extract_traits(content)
                stored_traits ==
                    Cardinality({j \in 1..Len(found) :
                                    found[j].confidence >= 70})
                substantial == content.len > 20
                id == generate_episode_id(user_id, content, mem_now)
                clash == \E e \in episodes : e.id = id
                episode_created ==
                    substantial /\ episode_confidence >= 70 /\ ~clash
            IN /\ traits' = store_traits(traits, user_id, found)
               /\ episodes' =
                    IF episode_created
                    THEN episodes \cup
                           {[id |-> id, user_id |-> user_id,
                             content |-> content.id,
                             confidence |-> episode_confidence]}
                    ELSE episodes
               /\ lastCandidate' =
                    [body |-> body,
                     status |-> IF substantial /\ clash THEN 500 ELSE 200,
                     episode_created |-> episode_created,
                     traits_extracted |-> stored_traits,
                     prev |-> traits]
    /\ UNCHANGED mem_now
    /\ UNCHANGED notMemory

\* a second passes
mem_tick ==
    /\ mem_now < MaxMemNow
    /\ mem_now' = mem_now + 1
    /\ UNCHANGED <<traits, episodes, candidates, lastCandidate>>
    /\ UNCHANGED notMemory

NextMemory ==
    \/ \E user_id \in MemUsers, content \in MemContents, shape \in BodyShapes :
          store_memory_candidate(CandidateBody(user_id, content, shape))
    \/ mem_tick

(***************************************************************************)
(* Properties of the memory service.                                       *)
(***************************************************************************)
\* C29: a trait upsert on (user_id, key) leaves the larger of the stored and
\* the new confidence in the table, and no stored confidence ever decreases.
C29_TraitConfidenceMonotonic ==
    [][candidates' # candidates =>
        /\ \A row \in DOMAIN traits :
              /\ row \in DOMAIN traits'
              /\ traits'[row].confidence >= traits[row].confidence
        /\ LET body == lastCandidate'.body
               found == extract_traits(body.content)
           IN lastCandidate'.status # 422 =>
                \A j \in 1..Len(found) :
                   LET row == <<body.user_id, found[j].key>> IN
                   (found[j].confidence >= 70 /\ row \in DOMAIN traits) =>
                      traits'[row].confidence =
                         Max(traits[row].confidence, found[j].confidence)]_vars

\* a trait that was stored has been observed again with another value
C29_Witness ==
    \E row \in DOMAIN lastCandidate.prev :
        /\ row[1] = lastCandidate.body.user_id
        /\ lastCandidate.status = 200
        /\ traits[row].value # lastCandidate.prev[row].value
        /\ traits[row].confidence = lastCandidate.prev[row].confidence

\* C30: a candidate leaves a stored episode exactly when its content has at
\* least 20 characters and its confidence is at least 0.7.
C30_EpisodeIffLongAndConfident ==
    lastCandidate.status # 0 =>
        (lastCandidate.episode_created <=>
            (lastCandidate.body.content.len >= 20
             /\ lastCandidate.body.confidence >= 70))

(***************************************************************************)
(* The policy guardrails service (src/13-policy-guardrails/src/app.py).    *)
(* A text is described by what the filters and checks read in it: the      *)
(* filters one of whose patterns matches, the number of sentences, whether *)
(* it is wrapped in braces and then whether it parses and fits the lane's  *)
(* schema, and its length in characters.                                   *)
(***************************************************************************)
MaxGuardCalls == 2

\* LANE_CONFIGS: the filters of each lane and its "max_length" key; the
\* lane "emotional" has "max_sentences" and no "max_length" (key absent: {})
LANE_CONFIGS ==
    [technical  |-> [filters |-> <<"security", "syntax", "imports">>,
                     max_length |-> {2000}],
     emotional  |-> [filters |-> <<"length", "tone", "appropriateness">>,
                     max_length |-> {}],
     creative   |-> [filters |-> <<"originality", "coherence", "engagement">>,
                     max_length |-> {1500}],
     analytical |-> [filters |-> <<"logic", "evidence", "objectivity">>,
                     max_length |-> {1800}]]

\* FILTER_CONFIGS["length"]: the one filter without patterns
max_sentences == 5

GuardLanes == DOMAIN LANE_CONFIGS \cup {"invalid_lane"}

GuardTexts ==
    {[id |-> "plain", hits |-> {}, sentences |-> 2, json |-> "no", len |-> 40],
     [id |-> "eval", hits |-> {"security", "logic"}, sentences |-> 1,
      json |-> "no", len |-> 30],
     [id |-> "rant", hits |-> {"tone"}, sentences |-> 7, json |-> "no",
      len |-> 300],
     [id |-> "object", hits |-> {}, sentences |-> 1, json |-> "invalid",
      len |-> 20],
     [id |-> "essay", hits |-> {}, sentences |-> 4, json |-> "no",
      len |-> 2500]}

\* apply_filters: one issue per filter of the lane that finds something
RECURSIVE apply_filters(_, _)
apply_filters(text, filters) ==
    IF filters = <<>> THEN <<>>
    ELSE LET filter_name == Head(filters)
             found == IF filter_name = "length"
                      THEN text.sentences > max_sentences
                      ELSE filter_name \in text.hits
         IN (IF found THEN <<[type |-> "filter", issue |-> filter_name]>>
             ELSE <<>>) \o apply_filters(text, Tail(filters))

\* "except Exception as e: ... raise HTTPException(status_code=500)": the
\* clause of both handlers; HTTPException is an Exception, so the handler's
\* own HTTPException is caught by it as well
except_Exception(raised) ==
    [status |-> 500, ok |-> FALSE, repairs |-> <<>>, raised |-> raised]

GuardAnswer(ok, repairs) ==
    [status |-> 200, ok |-> ok, repairs |-> repairs, raised |-> "none"]

\* POST /policy/apply: the answer's repairs field carries the validators
apply_policy(lane) ==
    IF lane \notin DOMAIN LANE_CONFIGS
    THEN except_Exception("HTTPException(400)")
    ELSE GuardAnswer(TRUE,
             <<[type |-> "schema", issue |-> lane]>>
             \o SelectSeq([k \in 1..Len(LANE_CONFIGS[lane].filters) |->
                              [type |-> "filter",
                               issue |-> LANE_CONFIGS[lane].filters[k]]],
                          LAMBDA v : v.issue # "length"))

\* POST /policy/validate
validate_content(lane, text) ==
    IF lane \notin DOMAIN LANE_CONFIGS
    THEN except_Exception("HTTPException(400)")
    ELSE LET lane_config == LANE_CONFIGS[lane]
             limit == IF lane_config.max_length = {} THEN 2000
                      ELSE CHOOSE n \in lane_config.max_length : TRUE
             issues == apply_filters(text, lane_config.filters)
                       \o (IF text.json = "invalid"
                           THEN <<[type |-> "schema", issue |-> "schema"]>>
                           ELSE <<>>)
         IN IF text.len > limit /\ lane_config.max_length = {}
            THEN except_Exception("KeyError")     \* lane_config['max_length']
            ELSE LET all == issues \o (IF text.len > limit
                                       THEN <<[type |-> "length",
                                               issue |-> "length"]>>
                                       ELSE <<>>)
                 IN GuardAnswer(all = <<>>, all)  \* one repair per issue

InitGuard == guard_log = <<>>
IdleGuard == guard_log = <<>>

policy_apply(lane) ==
    /\ Len(guard_log) < MaxGuardCalls
    /\ guard_log' = Append(guard_log,
           [endpoint |-> "apply", lane |-> lane, text |-> "none",
            answer |-> apply_policy(lane)])
    /\ UNCHANGED notGuard

policy_validate(lane, text) ==
    /\ Len(guard_log) < MaxGuardCalls
    /\ guard_log' = Append(guard_log,
           [endpoint |-> "validate", lane |-> lane, text |-> text.id,
            answer |-> validate_content(lane, text)])
    /\ UNCHANGED notGuard

NextGuard ==
    \/ \E lane \in GuardLanes : policy_apply(lane)
    \/ \E lane \in GuardLanes, text \in GuardTexts : policy_validate(lane, text)

\* C31: both /policy/apply and /policy/validate answer a request naming a
\* lane that is not in the lane table with HTTP 400.
C31_UnknownLane400 ==
    \A k \in 1..Len(guard_log) :
        guard_log[k].lane \notin DOMAIN LANE_CONFIGS
            => guard_log[k].answer.status = 400

(***************************************************************************)
(* Request correlation (server.py:166-175, util/http.py:11-66).  Each      *)
(* request is served in a task of its own, with its own copy of the        *)
(* context: REQUEST_ID is a function of the task.  add_request_id is the   *)
(* outermost user middleware; an exception that leaves call_next is        *)
(* answered by the framework's server-error handler, outside of it.        *)
(***************************************************************************)
MaxSvcCalls == 2

Tasks == {"t1", "t2"}
\* the inbound X-Request-Id header; "" stands for an absent (or empty) one
InboundIds == {"", "abc"}
uuid4_hex(n) == <<"uuid1", "uuid2">>[n]
NoHttp == [stage |-> "idle", header |-> "", rid |-> "none", sent |-> <<>>,
           status |-> 0, response_id |-> "none"]

InitCorr ==
    /\ REQUEST_ID = [t \in Tasks |-> "None"]
    /\ http = [t \in Tasks |-> NoHttp]
    /\ uuids = 0
IdleCorr == InitCorr

\* add_request_id up to "await call_next(request)"
add_request_id(t, header) ==
    /\ http[t].stage = "idle"
    /\ LET rid == IF header # "" THEN header ELSE uuid4_hex(uuids + 1)
       IN /\ uuids' = IF header # "" THEN uuids ELSE uuids + 1
          /\ REQUEST_ID' = [REQUEST_ID EXCEPT ![t] = rid]        \* token: "None"
          /\ http' = [http EXCEPT ![t] = [NoHttp EXCEPT !.stage = "handling",
                                                        !.header = header,
                                                        !.rid = rid]]
    /\ UNCHANGED notCorr

\* Svc.get / Svc.post called by the handler of request t: the X-Request-Id
\* header it sends ("none" when REQUEST_ID.get() is None or empty)
Svc_call(t) ==
    /\ http[t].stage = "handling"
    /\ Len(http[t].sent) < MaxSvcCalls
    /\ LET rid == REQUEST_ID[t]
           headers == IF rid \notin {"None", ""} THEN rid ELSE "none"
       IN http' = [http EXCEPT ![t].sent = Append(@, headers)]
    /\ UNCHANGED <<REQUEST_ID, uuids>>
    /\ UNCHANGED notCorr

\* call_next returns a response (the handler's, or the 429 or 504 of the
\* inner middleware): the header is set, then "finally" resets the variable
call_next_returns(t, status) ==
    /\ http[t].stage = "handling"
    /\ http' = [http EXCEPT ![t].stage = "answered", ![t].status = status,
                            ![t].response_id = http[t].rid]
    /\ REQUEST_ID' = [REQUEST_ID EXCEPT ![t] = "None"]
    /\ UNCHANGED uuids
    /\ UNCHANGED notCorr

\* call_next raises (the handler raised something else than HTTPException,
\* as chat_completions does for a body without "messages"): "finally" resets
\* the variable and the exception leaves the middleware; the client gets
\* the server-error handler's 500, which has no X-Request-Id
call_next_raises(t) ==
    /\ http[t].stage = "handling"
    /\ http' = [http EXCEPT ![t].stage = "answered", ![t].status = 500,
                            ![t].response_id = "none"]
    /\ REQUEST_ID' = [REQUEST_ID EXCEPT ![t] = "None"]
    /\ UNCHANGED uuids
    /\ UNCHANGED notCorr

NextCorr ==
    \/ \E t \in Tasks, header \in InboundIds : add_request_id(t, header)
    \/ \E t \in Tasks : Svc_call(t)
    \/ \E t \in Tasks, status \in {200, 429} : call_next_returns(t, status)
    \/ \E t \in Tasks : call_next_raises(t)

\* the id of request t: the inbound one, or one generated for it alone
OwnId(t) ==
    /\ http[t].rid # "none"
    /\ http[t].header # "" => http[t].rid = http[t].header
    /\ http[t].header = "" =>
           \A u \in Tasks \ {t} : http[u].rid # http[t].rid

\* C32: every outbound service call made while handling a request carries
\* that request's id (the inbound X-Request-Id, or a generated one when
\* absent), the same id is returned on the response, and concurrent
\* requests never observe each other's id.
C32_RequestIdEverywhere ==
    \A t \in Tasks :
        http[t].stage # "idle" =>
            /\ OwnId(t)
            /\ \A k \in 1..Len(http[t].sent) : http[t].sent[k] = http[t].rid
            /\ http[t].stage = "answered" => http[t].response_id = http[t].rid

(***************************************************************************)
(* Signed calls between services: the gateway's Svc.post                   *)
(* (util/http.py:50-66) and the multimodal router's verify_sig             *)
(* (10-multimodal-router/src/security.py, app.py:94-97, 210-213).          *)
(* A byte string is described by the payload it encodes and the two        *)
(* choices of the encoder that change the bytes: whether separators carry  *)
(* a space and whether non-ASCII characters are written as \uXXXX.         *)
(* HMAC-SHA256 is taken as collision-free: the pair of key and bytes.      *)
(***************************************************************************)
MaxDeliveries == 2

Secrets == {"k1", "k2"}
\* payloads: how many members, and whether a string in it has a non-ASCII
\* character (an image_url, a prompt)
SigPayloads ==
    {[id |-> "empty", members |-> 0, non_ascii |-> FALSE],
     [id |-> "image", members |-> 3, non_ascii |-> FALSE],
     [id |-> "cafe", members |-> 1, non_ascii |-> TRUE]}

\* json.dumps(payload, separators=..., ensure_ascii=...).encode()
json_bytes(payload, spaced, ensure_ascii) ==
    [of |-> payload.id,
     spaces |-> spaced /\ payload.members > 0,
     escapes |-> ensure_ascii /\ payload.non_ascii]

hmac_sha256(key, raw) == <<"mac", key, raw>>

\* httpx's encoding of json=payload: json.dumps(payload) before httpx 0.28,
\* compact separators with ensure_ascii=False since; the repository pins
\* no version
httpx_json(payload, compact) ==
    IF compact THEN json_bytes(payload, FALSE, FALSE)
    ELSE json_bytes(payload, TRUE, TRUE)

\* Svc.post: the request it sends
Svc_post_request(secret, payload, compact) ==
    [method |-> "POST", from |-> "gateway",
     sig |-> IF secret # "None"
             THEN hmac_sha256(secret, json_bytes(payload, FALSE, TRUE))
             ELSE <<"absent">>,
     body |-> httpx_json(payload, compact)]

\* verify_sig; hmac.compare_digest raises TypeError for a str with a
\* non-ASCII character
verify_sig(shared, sig, body) ==
    IF shared = "" THEN "return"
    ELSE IF sig = <<"non_ascii">> THEN "TypeError"
    ELSE IF (IF sig = <<"absent">> THEN <<"empty">> ELSE sig)
            # hmac_sha256(shared, body)
         THEN "HTTPException(401)"
    ELSE "return"

NoWire == [method |-> "none", from |-> "none", sig |-> <<"absent">>,
           body |-> json_bytes([id |-> "none", members |-> 0,
                                non_ascii |-> FALSE], FALSE, FALSE)]

InitSig ==
    /\ SHARED \in {""} \cup Secrets
    /\ svc_secret \in {"None"} \cup Secrets
    /\ httpx_compact \in BOOLEAN
    /\ wire = NoWire
    /\ delivered = <<>>
IdleSig ==
    /\ SHARED = ""
    /\ svc_secret = "None"
    /\ httpx_compact = TRUE
    /\ wire = NoWire
    /\ delivered = <<>>

Sending ==
    /\ wire = NoWire
    /\ Len(delivered) < MaxDeliveries
    /\ UNCHANGED <<SHARED, svc_secret, httpx_compact, delivered>>
    /\ UNCHANGED notSig

\* the gateway posts a payload to /mm/image or /mm/audio_json
Svc_post(payload) ==
    /\ Sending
    /\ wire' = Svc_post_request(svc_secret, payload, httpx_compact)

\* another client posts a body with a signature of its choice: none, one
\* made with a key, for these bytes or for other ones, or a non-ASCII text
client_post(payload, key, signed) ==
    /\ Sending
    /\ wire' = [method |-> "POST", from |-> "client",
                sig |-> IF key = "absent" THEN <<"absent">>
                        ELSE IF key = "non_ascii" THEN <<"non_ascii">>
                        ELSE hmac_sha256(key, json_bytes(signed, FALSE, TRUE)),
                body |-> json_bytes(payload, FALSE, TRUE)]

\* GET /healthz
client_get ==
    /\ Sending
    /\ wire' = [NoWire EXCEPT !.method = "GET", !.from = "client"]

\* the router's handler: analyze_image, analyze_audio_json or health
mm_handle ==
    /\ wire # NoWire
    /\ LET verdict == IF wire.method = "GET" THEN "return"
                      ELSE verify_sig(SHARED, wire.sig, wire.body)
           status == CASE verdict = "return" -> 200
                       [] verdict = "HTTPException(401)" -> 401
                       [] OTHER -> 500
       IN delivered' = Append(delivered,
              [request |-> wire, status |-> status,
               processed |-> verdict = "return",
               valid |-> wire.sig = hmac_sha256(SHARED, wire.body)])
    /\ wire' = NoWire
    /\ UNCHANGED <<SHARED, svc_secret, httpx_compact>>
    /\ UNCHANGED notSig

NextSig ==
    \/ \E payload \in SigPayloads : Svc_post(payload)
    \/ \E payload \in SigPayloads, signed \in SigPayloads,
          key \in Secrets \cup {"absent", "non_ascii"} :
              client_post(payload, key, signed)
    \/ client_get
    \/ mm_handle

\* C33: when a shared secret is configured, a receiving service rejects
\* with 401, and does not process, any JSON POST whose X-SUITE-SIG does not
\* equal the HMAC-SHA256 of the body it received, and it accepts the POSTs
\* signed by the gateway with the same secret; GET requests are accepted
\* unsigned.
C33_SignedPostsOnly ==
    SHARED # "" =>
        \A k \in 1..Len(delivered) :
            LET d == delivered[k]
            IN /\ (d.request.method = "POST" /\ ~d.valid)
                      => (d.status = 401 /\ ~d.processed)
               /\ (d.request.from = "gateway" /\ svc_secret = SHARED)
                      => d.processed
               /\ d.request.method = "GET" => d.processed

(***************************************************************************)
(* Cache keys of the telemetry cache                                       *)
(* (src/14-telemetry-cache/src/app.py:306-325).  An argument map is the    *)
(* sequence of its items in insertion order.  A value is an int, a str (a  *)
(* sequence of characters) or a float, written in thousandths; the floats  *)
(* drawn are none halfway between two hundredths, so that the rounding of  *)
(* the format does not depend on their binary expansion.  A cache key is   *)
(* the sequence of its characters.                                         *)
(***************************************************************************)
MaxArgs == 2

ArgKeys == <<"model", "temperature">>          \* in sorted order
ArgValues ==
    {[type |-> "float", n |-> 704, s |-> <<>>],        \* 0.704
     [type |-> "float", n |-> 696, s |-> <<>>],        \* 0.696
     [type |-> "float", n |-> 1, s |-> <<>>],          \* 0.001
     [type |-> "float", n |-> -1, s |-> <<>>],         \* -0.001
     [type |-> "int", n |-> 100, s |-> <<>>],
     [type |-> "str", n |-> 0, s |-> <<"A", "-", "7">>],       \* "A-7"
     [type |-> "str", n |-> 0, s |-> <<"a", "!", "7">>]}       \* "a!7"

ArgMaps ==
    {m \in UNION {[1..k -> [key : {ArgKeys[j] : j \in 1..Len(ArgKeys)},
                            value : ArgValues]] : k \in 1..MaxArgs} :
        \A j, k \in 1..Len(m) : j # k => m[j].key # m[k].key}

Abs(n) == IF n < 0 THEN -n ELSE n
digit(d) == <<"0", "1", "2", "3", "4", "5", "6", "7", "8", "9">>[d + 1]
\* str(n) for n >= 0
RECURSIVE digits(_)
digits(n) == IF n < 10 THEN <<digit(n)>>
             ELSE digits(n \div 10) \o <<digit(n % 10)>>

\* f"{value:.2f}": the sign of the value, then its magnitude rounded to
\* hundredths; a negative value that rounds to zero keeps its sign
format_2f(n) ==
    LET h == (Abs(n) + 5) \div 10
    IN (IF n < 0 THEN <<"-">> ELSE <<>>)
       \o digits(h \div 100) \o <<".">>
       \o <<digit((h % 100) \div 10), digit(h % 10)>>

lower(c) == IF c = "A" THEN "a" ELSE c
\* re.sub(r'[^a-z0-9]', '_', value.lower())[:50]
normalize_str(s) ==
    LET subbed == [k \in 1..Len(s) |->
                      IF lower(s[k]) \in {"a", "7"} THEN lower(s[k]) ELSE "_"]
    IN SubSeq(subbed, 1, IF Len(s) < 50 THEN Len(s) ELSE 50)

normalized_value(value) ==
    CASE value.type = "float" -> format_2f(value.n)
      [] value.type = "str" -> normalize_str(value.s)
      [] OTHER -> (IF value.n < 0 THEN <<"-">> ELSE <<>>)
                  \o digits(Abs(value.n))                  \* str(value)

\* sorted(args.items()): the items by key
sorted_items(args) ==
    LET present(j) == \E k \in 1..Len(args) : args[k].key = ArgKeys[j]
        item(j) == CHOOSE it \in {args[k] : k \in 1..Len(args)} :
                       it.key = ArgKeys[j]
        RECURSIVE from(_)
        from(j) == IF j > Len(ArgKeys) THEN <<>>
                   ELSE (IF present(j) THEN <<item(j)>> ELSE <<>>)
                        \o from(j + 1)
    IN from(1)

RECURSIVE join_normalized(_)
join_normalized(items) ==
    IF items = <<>> THEN <<>>
    ELSE <<":", Head(items).key, ":">> \o normalized_value(Head(items).value)
         \o join_normalized(Tail(items))

\* one tool name is enough: both maps are arguments of the same tool
normalize_tool_args(tool, args) ==
    <<"tool", ":", tool>> \o join_normalized(sorted_items(args))

InitCache ==
    /\ arg_maps \in ArgMaps \X ArgMaps
    /\ cache_keys = <<>>
IdleCache ==
    /\ arg_maps = <<<<>>, <<>>>>
    /\ cache_keys = <<>>

cache_lookup(tool) ==
    /\ cache_keys = <<>>
    /\ cache_keys' = <<normalize_tool_args(tool, arg_maps[1]),
                       normalize_tool_args(tool, arg_maps[2])>>
    /\ UNCHANGED arg_maps
    /\ UNCHANGED notCache

NextCache == \E tool \in {"generate_response"} : cache_lookup(tool)

\* the value a float has to two decimals, in hundredths
round_2(n) == IF n < 0 THEN -((Abs(n) + 5) \div 10) ELSE (n + 5) \div 10

\* two values that are the same up to float precision and up to the
\* alphanumeric normalization of strings
EquivalentValues(v, w) ==
    /\ v.type = w.type
    /\ v.type = "float" => round_2(v.n) = round_2(w.n)
    /\ v.type = "int" => v.n = w.n
    /\ v.type = "str" =>
           /\ Len(v.s) = Len(w.s)
           /\ \A k \in 1..Len(v.s) :
                  \/ lower(v.s[k]) = lower(w.s[k])
                  \/ {lower(v.s[k]), lower(w.s[k])} \cap {"a", "7"} = {}

\* two argument maps that are the same up to key order and up to the
\* equivalence of their values
EquivalentArgs(a, b) ==
    /\ {a[k].key : k \in 1..Len(a)} = {b[k].key : k \in 1..Len(b)}
    /\ \A j \in 1..Len(a), k \in 1..Len(b) :
           a[j].key = b[k].key => EquivalentValues(a[j].value, b[k].value)

\* C34: normalize_tool_args returns equal cache keys for any two argument
\* maps of the same tool that are equivalent up to key order, float
\* precision (two decimals) and alphanumeric normalization of string values.
C34_EquivalentArgsSameKey ==
    (cache_keys # <<>> /\ EquivalentArgs(arg_maps[1], arg_maps[2]))
        => cache_keys[1] = cache_keys[2]

(***************************************************************************)
(* Properties of the worker: tasks.py:84-95 with server.py:186-199.        *)
(***************************************************************************)
\* C35: when the pipeline run for a queued task raises in Pre, Mid or Post,
\* the task is reported to the queue as failed (its retries is incremented
\* and it is retried, ending in the DLQ after MAX_RETRIES failures); it is
\* never acknowledged as succeeded.
C35_RaisedRunIsFailed ==
    (handler = "_handler" /\ lastOp.outcome = "raise") => lastOp.op = "fail"

\* C36: the worker loop keeps polling and processing later jobs after any
\* handler failure and after any transient error of the queue store during
\* poll or re-enqueue; a job that was dequeued when such an error occurred
\* is still in the queue or the DLQ afterwards.
C36_WorkerSurvivesErrors ==
    /\ lastOp.op = "fail" => worker = "poll"
    /\ lastOp.op = "store_error" =>
           /\ worker = "poll"
           /\ lastOp.payload # 0 =>
                  \E j \in QueuedJobs \cup DeadJobs : j.payload = lastOp.payload

(***************************************************************************)
(* Properties of the rate limiter over time (server.py:98-142).            *)
(***************************************************************************)
\* the bound on a window's admissions, burst + rate_per_min * T / 60 with T
\* in seconds, written without division for a window in milliseconds
WithinRate(w) ==
    (w.count - RATE_LIMIT_BURST) * PerMinuteMs
        <= RATE_LIMIT_PER_MIN * (w.last - w.start)

TokensInRange ==
    \A u \in UserIds :
        buckets[u].exists =>
            /\ buckets[u].tokens >= 0
            /\ buckets[u].tokens <= RATE_LIMIT_BURST * PerMinuteMs

\* C37: for any caller and any time window of length T seconds, the number
\* of requests admitted by the rate limiter is at most
\* burst + rate_per_min * T / 60, under every interleaving of concurrent
\* requests; the stored token count always stays within [0, burst].
C37_AdmissionsBounded ==
    /\ (RATE_LIMIT_PER_MIN > 0 /\ lastReq.window.count > 0)
           => WithinRate(lastReq.window)
    /\ TokensInRange

(***************************************************************************)
(* The ByteBot gateway (src/15-bytebot-gateway/src/app.py and              *)
(* adapters/bytebot_http.py).  The handlers are coroutines of one event    *)
(* loop: a handler runs alone from one await to the next, and execute_     *)
(* action awaits the backend between its checks and "del active_tasks".    *)
(* A confirm token is named by the task id it was generated for.           *)
(***************************************************************************)
retry_attempts == 3
MaxPlans == 2
MaxExecs == 2

TaskIds == <<"id1", "id2">>                      \* str(uuid.uuid4()), in turn
Clients == {"a", "b"}
generate_confirm_token(task_id) == [issued_for |-> task_id]
ExecuteRequests ==
    [task_id : {"id1", "id2", "unknown"},
     confirm_token : {generate_confirm_token(id) : id \in {"id1", "id2"}},
     sig_ok : BOOLEAN]
NoExec == [pc |-> "idle", task_id |-> "none",
           confirm_token |-> generate_confirm_token("none"), attempt |-> 0,
           status |-> 0, detail |-> "none"]

InitByte ==
    /\ active_tasks = {}
    /\ task_events = <<>>
    /\ execs = [c \in Clients |-> NoExec]
    /\ bb_calls = <<>>
    /\ plans = [plan |-> 0, execute |-> 0]
    /\ last_plan = [status |-> 0, task_id |-> "none"]
IdleByte == InitByte

\* "except Exception as e: raise HTTPException(status_code=500, ...)": the
\* clause of plan_action and execute_action, which also catches the
\* HTTPException the handler raised itself
Failed(detail) == [NoExec EXCEPT !.pc = "done", !.status = 500,
                                 !.detail = detail]

\* POST /plan.  adapter.plan answers a default plan when the backend fails,
\* so bb_plan always returns.
plan_action(sig_ok, allowed) ==
    /\ plans.plan < MaxPlans
    /\ plans' = [plans EXCEPT !.plan = @ + 1]
    /\ IF sig_ok /\ allowed
       THEN LET task_id == TaskIds[plans.plan + 1]
            IN /\ active_tasks' = active_tasks \cup {task_id}
               /\ task_events' =
                      [id \in DOMAIN task_events \cup {task_id} |->
                          IF id = task_id THEN <<"task_created">>
                          ELSE task_events[id]]
               /\ last_plan' = [status |-> 200, task_id |-> task_id]
       ELSE /\ last_plan' = [status |-> 500, task_id |-> "none"]
            /\ UNCHANGED <<active_tasks, task_events>>
    /\ UNCHANGED <<execs, bb_calls>>
    /\ UNCHANGED notByte

\* POST /execute up to "await bb_exec(...)": the checks, the event, and the
\* first request of the adapter to the backend
execute_action(c, req) ==
    /\ execs[c].pc \in {"idle", "done"}
    /\ plans.execute < MaxExecs
    /\ plans' = [plans EXCEPT !.execute = @ + 1]
    /\ LET detail ==
              IF ~req.sig_ok THEN "HTTPException(401)"
              ELSE IF req.task_id \notin active_tasks
              THEN "HTTPException(404)"
              ELSE IF req.confirm_token # generate_confirm_token(req.task_id)
              THEN "HTTPException(403)"
              ELSE "none"
       IN IF detail # "none"
          THEN /\ execs' = [execs EXCEPT ![c] = Failed(detail)]
               /\ UNCHANGED <<task_events, bb_calls>>
          ELSE /\ execs' = [execs EXCEPT ![c] =
                      [NoExec EXCEPT !.pc = "bb_exec",
                                     !.task_id = req.task_id,
                                     !.confirm_token = req.confirm_token,
                                     !.attempt = 1]]
               /\ task_events' = [task_events EXCEPT ![req.task_id] =
                                     Append(@, "task_executing")]
               /\ bb_calls' = Append(bb_calls,
                      [task_id |-> req.task_id,
                       confirm_token |-> req.confirm_token])
    /\ UNCHANGED <<active_tasks, last_plan>>
    /\ UNCHANGED notByte

\* the backend answers (or the request times out).  _make_request sends the
\* request again after a 5xx answer or a timeout, retry_attempts times in
\* all; adapter.execute turns a final failure into an error result, and the
\* handler goes on to its end: the event, "del active_tasks[task_id]" (a
\* KeyError when another request deleted it), the answer.
bb_exec_returns(c, answer) ==
    /\ execs[c].pc = "bb_exec"
    /\ IF answer = "retryable" /\ execs[c].attempt < retry_attempts
       THEN /\ execs' = [execs EXCEPT ![c].attempt = @ + 1]
            /\ bb_calls' = Append(bb_calls,
                   [task_id |-> execs[c].task_id,
                    confirm_token |-> execs[c].confirm_token])
            /\ UNCHANGED <<active_tasks, task_events>>
       ELSE /\ task_events' = [task_events EXCEPT ![execs[c].task_id] =
                                  Append(@, "task_completed")]
            /\ active_tasks' = active_tasks \ {execs[c].task_id}
            /\ execs' = [execs EXCEPT ![c] =
                   IF execs[c].task_id \in active_tasks
                   THEN [@ EXCEPT !.pc = "done", !.status = 200,
                                  !.detail = answer]
                   ELSE Failed("KeyError")]
            /\ UNCHANGED bb_calls
    /\ UNCHANGED <<plans, last_plan>>
    /\ UNCHANGED notByte

NextByte ==
    \/ \E sig_ok \in BOOLEAN, allowed \in BOOLEAN : plan_action(sig_ok, allowed)
    \/ \E c \in Clients, req \in ExecuteRequests : execute_action(c, req)
    \/ \E c \in Clients, answer \in {"success", "error", "retryable"} :
          bb_exec_returns(c, answer)

\* C38: in the ByteBot gateway, the backend action of a planned task is
\* invoked at most once per plan, only for a task_id that was planned and
\* with the confirm token issued for it, even when execute requests for the
\* same task_id arrive concurrently.
C38_BackendOncePerPlan ==
    \A j \in 1..Len(bb_calls) :
        /\ bb_calls[j].task_id \in DOMAIN task_events
        /\ bb_calls[j].confirm_token
               = generate_confirm_token(bb_calls[j].task_id)
        /\ \A k \in 1..Len(bb_calls) :
               bb_calls[k].task_id = bb_calls[j].task_id => k = j

(***************************************************************************)
(* The proactive daemon (src/09-proactive-daemon/src/worker.py): the       *)
(* idempotency keys and send_nudge.  The daemon checks its triggers one    *)
(* after the other, so one send_nudge runs at a time.  Time is counted in  *)
(* instants, the resolution of datetime.now().isoformat(); hash() is taken *)
(* as collision-free, so a key is the data it was made of.                 *)
(***************************************************************************)
ttl_hours == 24
InstantsPerHour == 2
MaxNudges == 3
MaxClockSteps == 2

ttl_instants == ttl_hours * InstantsPerHour
ClockSteps == {1, ttl_instants}
Nudges == {[trigger_type |-> "time_of_day", message |-> "Good morning",
            context |-> "09:00"],
           [trigger_type |-> "inactivity_gap", message |-> "Still there?",
            context |-> "30"]}
RetryConfigs == {1, 2}
\* requests.post: the status of the answer, 0 for an exception
PostOutcomes == {200, 500, 0}

\* send_nudge, worker.py:153-159: the key is made of the trigger type, the
\* message, the context and the time of the call
idempotency_key(n, timestamp) ==
    [trigger_type |-> n.trigger_type,
     hash |-> <<n.message, n.context, timestamp>>]

\* IdempotencyManager.is_duplicate: its answer and the table it leaves
is_duplicate(table, key, t) ==
    IF key \in DOMAIN table /\ table[key] > t
    THEN [duplicate |-> TRUE, table |-> table]
    ELSE [duplicate |-> FALSE,
          table |-> [k \in DOMAIN table \cup {key} |->
                        IF k = key THEN t + ttl_instants ELSE table[k]]]

NoNudge == [pc |-> "idle",
            nudge |-> [trigger_type |-> "none", message |-> "",
                       context |-> ""],
            attempt |-> 0, result |-> "none", checked |-> FALSE,
            was_live |-> FALSE, duplicate |-> FALSE,
            key |-> idempotency_key([trigger_type |-> "none", message |-> "",
                                     context |-> ""], 0)]

InitNudge ==
    /\ idempotency_keys = <<>>
    /\ clock = 0
    /\ dry_run \in BOOLEAN
    /\ max_retries \in RetryConfigs
    /\ nudge = NoNudge
    /\ posts = {}
    /\ nudges = 0
    /\ clock_steps = 0
IdleNudge ==
    /\ idempotency_keys = <<>>
    /\ clock = 0
    /\ dry_run = TRUE
    /\ max_retries = 1
    /\ nudge = NoNudge
    /\ posts = {}
    /\ nudges = 0
    /\ clock_steps = 0

\* send_nudge up to its first request
send_nudge(n) ==
    /\ nudge.pc = "idle"
    /\ nudges < MaxNudges
    /\ nudges' = nudges + 1
    /\ IF dry_run
       THEN /\ nudge' = [NoNudge EXCEPT !.nudge = n, !.result = "True"]
            /\ UNCHANGED idempotency_keys
       ELSE LET key == idempotency_key(n, clock)
                res == is_duplicate(idempotency_keys, key, clock)
            IN /\ idempotency_keys' = res.table
               /\ nudge' = [pc |-> IF res.duplicate THEN "idle" ELSE "post",
                            nudge |-> n, attempt |-> 0,
                            result |-> IF res.duplicate THEN "True"
                                       ELSE "none",
                            checked |-> TRUE,
                            was_live |-> key \in DOMAIN idempotency_keys
                                         /\ idempotency_keys[key] > clock,
                            duplicate |-> res.duplicate,
                            key |-> key]
    /\ UNCHANGED <<clock, dry_run, max_retries, posts, clock_steps>>
    /\ UNCHANGED notNudge

\* one turn of "for attempt in range(self.backoff.max_retries)"
post_nudge(outcome) ==
    /\ nudge.pc = "post"
    /\ IF outcome = 200
       THEN /\ posts' = posts \cup {[nudge |-> nudge.nudge, at |-> clock,
                                     call |-> nudges]}
            /\ nudge' = [nudge EXCEPT !.pc = "idle", !.result = "True"]
       ELSE /\ UNCHANGED posts
            /\ nudge' = IF nudge.attempt < max_retries - 1
                        THEN [nudge EXCEPT !.attempt = @ + 1]
                        ELSE [nudge EXCEPT !.pc = "idle", !.result = "False"]
    /\ UNCHANGED <<idempotency_keys, clock, dry_run, max_retries, nudges,
                   clock_steps>>
    /\ UNCHANGED notNudge

\* run_once, worker.py:325: IdempotencyManager.cleanup_expired
cleanup_expired ==
    /\ nudge.pc = "idle"
    /\ \E k \in DOMAIN idempotency_keys : idempotency_keys[k] <= clock
    /\ idempotency_keys' =
           [k \in {j \in DOMAIN idempotency_keys : idempotency_keys[j] > clock}
               |-> idempotency_keys[k]]
    /\ UNCHANGED <<clock, dry_run, max_retries, nudge, posts, nudges,
                   clock_steps>>
    /\ UNCHANGED notNudge

\* time passes: between two checks, or in the sleep between two attempts
clock_step(d) ==
    /\ clock_steps < MaxClockSteps
    /\ clock_steps' = clock_steps + 1
    /\ clock' = clock + d
    /\ UNCHANGED <<idempotency_keys, dry_run, max_retries, nudge, posts, nudges>>
    /\ UNCHANGED notNudge

NextNudge ==
    \/ \E n \in Nudges : send_nudge(n)
    \/ \E outcome \in PostOutcomes : post_nudge(outcome)
    \/ cleanup_expired
    \/ \E d \in ClockSteps : clock_step(d)

\* C39: a nudge with the same trigger type, message and context is sent to
\* the gateway at most once within the idempotency TTL: the first
\* is_duplicate call for a key returns false and records it, every later
\* call before expiry returns true, and send_nudge skips sending for a
\* repeated nudge.
C39_NudgeOncePerTtl ==
    /\ \A p, q \in posts :
           (p.nudge = q.nudge /\ p.call < q.call)
               => q.at - p.at >= ttl_instants
    /\ nudge.checked =>
           /\ nudge.duplicate = nudge.was_live
           /\ \/ nudge.key \in DOMAIN idempotency_keys
              \/ clock >= nudge.key.hash[3] + ttl_instants

(***************************************************************************)
(* Repeated and failing candidates (02-memory-2.0/src/app.py:328-371).     *)
(***************************************************************************)
\* C40: submitting the same memory candidate (same user_id and content)
\* twice, in sequence or concurrently, succeeds both times, and a
\* /mem/candidates request that returns an error leaves the trait and
\* episode store unchanged (no partial write).
C40_ResubmissionSucceeds ==
    /\ (lastCandidate.status # 0 /\ lastCandidate.body.field = "content")
           => lastCandidate.status = 200
    /\ lastCandidate.status \in {422, 500} => traits = lastCandidate.prev

(***************************************************************************)
(* The specifications.  Each starts with the part it is about in its       *)
(* initial state and every other part at rest.                             *)
(***************************************************************************)
QueueInit ==
    InitQueue /\ IdleRate /\ IdleChat /\ IdleRemote /\ IdleGateway
    /\ IdleDrive /\ IdleMemory /\ IdleGuard /\ IdleCorr /\ IdleSig
    /\ IdleCache /\ IdleByte /\ IdleNudge
SpecQueue == QueueInit /\ [][NextQueue]_vars

ChatInit ==
    InitChat /\ IdleQueue /\ IdleRate /\ IdleRemote /\ IdleGateway
    /\ IdleDrive /\ IdleMemory /\ IdleGuard /\ IdleCorr /\ IdleSig
    /\ IdleCache /\ IdleByte /\ IdleNudge
SpecChat == ChatInit /\ [][NextChat]_vars

StreamInit == ChatInit
SpecStream == StreamInit /\ [][NextStream]_vars

RateInit ==
    InitRate /\ IdleQueue /\ IdleChat /\ IdleRemote /\ IdleGateway
    /\ IdleDrive /\ IdleMemory /\ IdleGuard /\ IdleCorr /\ IdleSig
    /\ IdleCache /\ IdleByte /\ IdleNudge
SpecRate == RateInit /\ [][NextRate]_vars

LoopInit ==
    InitLoop /\ IdleQueue /\ IdleRate /\ IdleRemote /\ IdleGateway
    /\ IdleDrive /\ IdleMemory /\ IdleGuard /\ IdleCorr /\ IdleSig
    /\ IdleCache /\ IdleByte /\ IdleNudge
SpecLoop == LoopInit /\ [][NextLoop]_vars
\* the event loop runs a coroutine that can take a step
SpecLoopFair == SpecLoop /\ WF_vars(NextLoop)

RemoteInit ==
    InitRemote /\ IdleQueue /\ IdleRate /\ IdleChat /\ IdleGateway
    /\ IdleDrive /\ IdleMemory /\ IdleGuard /\ IdleCorr /\ IdleSig
    /\ IdleCache /\ IdleByte /\ IdleNudge
SpecRemote == RemoteInit /\ [][NextRemote]_vars

PolicyInit ==
    InitPolicy /\ IdleQueue /\ IdleRate /\ IdleChat /\ IdleRemote
    /\ IdleDrive /\ IdleMemory /\ IdleGuard /\ IdleCorr /\ IdleSig
    /\ IdleCache /\ IdleByte /\ IdleNudge
SpecPolicy == PolicyInit /\ [][NextPolicy]_vars

GatewayInit == PolicyInit
SpecGateway == GatewayInit /\ [][NextGateway]_vars

DriveInit ==
    InitDrive /\ IdleQueue /\ IdleRate /\ IdleChat /\ IdleRemote
    /\ IdleGateway /\ IdleMemory /\ IdleGuard /\ IdleCorr /\ IdleSig
    /\ IdleCache /\ IdleByte /\ IdleNudge
SpecDrive == DriveInit /\ [][NextDrive]_vars

MemoryInit ==
    InitMemory /\ IdleQueue /\ IdleRate /\ IdleChat /\ IdleRemote
    /\ IdleGateway /\ IdleDrive /\ IdleGuard /\ IdleCorr /\ IdleSig
    /\ IdleCache /\ IdleByte /\ IdleNudge
SpecMemory == MemoryInit /\ [][NextMemory]_vars

GuardInit ==
    InitGuard /\ IdleQueue /\ IdleRate /\ IdleChat /\ IdleRemote
    /\ IdleGateway /\ IdleDrive /\ IdleMemory /\ IdleCorr /\ IdleSig
    /\ IdleCache /\ IdleByte /\ IdleNudge
SpecGuard == GuardInit /\ [][NextGuard]_vars

CorrInit ==
    InitCorr /\ IdleQueue /\ IdleRate /\ IdleChat /\ IdleRemote
    /\ IdleGateway /\ IdleDrive /\ IdleMemory /\ IdleGuard /\ IdleSig
    /\ IdleCache /\ IdleByte /\ IdleNudge
SpecCorr == CorrInit /\ [][NextCorr]_vars

SigInit ==
    InitSig /\ IdleQueue /\ IdleRate /\ IdleChat /\ IdleRemote
    /\ IdleGateway /\ IdleDrive /\ IdleMemory /\ IdleGuard /\ IdleCorr
    /\ IdleCache /\ IdleByte /\ IdleNudge
SpecSig == SigInit /\ [][NextSig]_vars

CacheInit ==
    InitCache /\ IdleQueue /\ IdleRate /\ IdleChat /\ IdleRemote
    /\ IdleGateway /\ IdleDrive /\ IdleMemory /\ IdleGuard /\ IdleCorr
    /\ IdleSig /\ IdleByte /\ IdleNudge
SpecCache == CacheInit /\ [][NextCache]_vars

ByteInit ==
    InitByte /\ IdleQueue /\ IdleRate /\ IdleChat /\ IdleRemote
    /\ IdleGateway /\ IdleDrive /\ IdleMemory /\ IdleGuard /\ IdleCorr
    /\ IdleSig /\ IdleCache /\ IdleNudge
SpecByte == ByteInit /\ [][NextByte]_vars

NudgeInit ==
    InitNudge /\ IdleQueue /\ IdleRate /\ IdleChat /\ IdleRemote
    /\ IdleGateway /\ IdleDrive /\ IdleMemory /\ IdleGuard /\ IdleCorr
    /\ IdleSig /\ IdleCache /\ IdleByte
SpecNudge == NudgeInit /\ [][NextNudge]_vars

====
